---- MODULE Spec2Model ----
(***************************************************************************)
(* Progress tracking of the course platform: the lesson-completion toggle  *)
(* (MarkLessonCompletedView), the Progress and Enrollment tables with      *)
(* their unique_together constraints, and the module / course roll-ups.    *)
(***************************************************************************)
EXTENDS Integers, Sequences, FiniteSets, TLC

(* ------------------------------ bounds --------------------------------- *)

\* number of request workers that can be inside a view at the same time
NumReq == 2
\* total number of toggle requests sent
MaxToggles == 2
MaxStampToggles == 4
MaxOrderToggles == 2
MaxSold == 4
\* total number of orders placed
MaxOrders == 1
\* largest lesson count for which the percentage expression is evaluated
MaxTotal == 50
\* clock readings that fall into the same minute of the wall clock
TicksPerMinute == 2
\* number of workers that can be inside an enroll, checkout or review view
NumJobs == 2
\* total number of enroll, checkout and review requests sent
MaxJobs == 3
\* total number of orders placed by checkouts that interleave
MaxCheckouts == 2

(* ------------------------------ catalog -------------------------------- *)

Users == {"u1", "u2"}
\* the user who wrote the courses
Teachers == {"t1"}
AnonymousUser == "anon"

\* Course rows as first stored: pk |-> fields; is_free and price are
\* independent columns
Course ==
    (1 :> [is_free |-> FALSE, price |-> 10, is_published |-> TRUE, author |-> "t1"]) @@
    (2 :> [is_free |-> TRUE,  price |-> 0,  is_published |-> TRUE, author |-> "t1"]) @@
    (3 :> [is_free |-> TRUE,  price |-> 5,  is_published |-> TRUE, author |-> "t1"])

\* Module rows: pk |-> fields, (course, order) unique; the last row is the
\* one a module create request stores
Module ==
    (1 :> [course |-> 1, order |-> 1]) @@
    (2 :> [course |-> 1, order |-> 2]) @@
    (3 :> [course |-> 2, order |-> 1]) @@
    (4 :> [course |-> 2, order |-> 2])

\* Lesson rows: pk |-> fields, (module, order) unique; the last row is the
\* one a lesson create request stores
Lesson ==
    (1 :> [module |-> 1, order |-> 1, is_published |-> TRUE]) @@
    (2 :> [module |-> 1, order |-> 2, is_published |-> FALSE]) @@
    (3 :> [module |-> 2, order |-> 1, is_published |-> TRUE]) @@
    (4 :> [module |-> 3, order |-> 1, is_published |-> TRUE]) @@
    (5 :> [module |-> 3, order |-> 2, is_published |-> FALSE])

\* Course.title of the rows above
CourseTitle == (1 :> "Python") @@ (2 :> "Django") @@ (3 :> "SQL")

\* the users with is_staff
Staff == {"admin"}

CourseIds == DOMAIN Course
ModuleIds == DOMAIN Module
LessonIds == DOMAIN Lesson

\* the rows stored at the start
InitialModules == {m \in ModuleIds : \E n \in ModuleIds : n > m}
InitialLessons == {l \in LessonIds : \E n \in LessonIds : n > l}

\* Module.title as first stored
InitialTitle == "Basics"

\* Lesson.course(): the course a lesson belongs to
LessonCourse(l) == Module[Lesson[l].module].course

(* ------------------- request parameters and parsing -------------------- *)

\* A POST parameter is <<>> when the request does not carry it and <<s>>
\* when it carries the string s; strings are sequences of characters.
None == <<>>
Str(chars) == <<chars>>

Digits == ("0" :> 0) @@ ("1" :> 1) @@ ("2" :> 2) @@ ("3" :> 3) @@ ("4" :> 4) @@
          ("5" :> 5) @@ ("6" :> 6) @@ ("7" :> 7) @@ ("8" :> 8) @@ ("9" :> 9)

LessonIdParams ==
    {None, Str(<<>>), Str(<<"1">>), Str(<<"2">>), Str(<<"3">>), Str(<<"4">>),
     Str(<<"9">>), Str(<<"a", "b", "c">>)}
CompletedParams == {Str(<<"t", "r", "u", "e">>), Str(<<"f", "a", "l", "s", "e">>)}

\* int(s) of the pk lookup: a decimal literal, ValueError otherwise
IsIntLiteral(s) == Len(s) > 0 /\ \A i \in 1..Len(s) : s[i] \in DOMAIN Digits

RECURSIVE ParseInt(_)
ParseInt(s) ==
    IF Len(s) = 0 THEN 0
    ELSE 10 * ParseInt(SubSeq(s, 1, Len(s) - 1)) + Digits[s[Len(s)]]

(* ------------- int((completed / total) * 100) in binary64 -------------- *)
(* The quotient and the product are IEEE-754 doubles (53-bit significand,  *)
(* round to nearest, ties to even); the significand is kept as one leading *)
(* bit followed by four 13-bit limbs, value = m * 2^e.                     *)

LimbBits == 13
LimbBase == 8192

RECURSIVE Pow2(_)
Pow2(n) == IF n = 0 THEN 1 ELSE 2 * Pow2(n - 1)

RECURSIVE BitLen(_)
BitLen(n) == IF n = 0 THEN 0 ELSE 1 + BitLen(n \div 2)

RECURSIVE DivLimbs(_, _, _)
DivLimbs(rem, t, n) ==
    IF n = 0 THEN <<>>
    ELSE <<(rem * LimbBase) \div t>> \o DivLimbs((rem * LimbBase) % t, t, n - 1)

RECURSIVE DivRem(_, _, _)
DivRem(rem, t, n) ==
    IF n = 0 THEN rem ELSE DivRem((rem * LimbBase) % t, t, n - 1)

RECURSIVE IncLimbs(_)
IncLimbs(m) ==
    LET n == Len(m)
    IN  IF n = 1 THEN <<m[1] + 1>>
        ELSE IF m[n] + 1 < LimbBase THEN [m EXCEPT ![n] = m[n] + 1]
        ELSE IncLimbs(SubSeq(m, 1, n - 1)) \o <<0>>

RoundHalfEven(m, guard, sticky) ==
    IF guard = 1 /\ (sticky \/ m[Len(m)] % 2 = 1) THEN IncLimbs(m) ELSE m

Normalize(m, e) ==
    IF m[1] = 2 THEN [m |-> <<1, 0, 0, 0, 0>>, e |-> e + 1] ELSE [m |-> m, e |-> e]

TrueDiv(c, t) ==
    LET k  == BitLen((t - 1) \div c)
        r0 == c * Pow2(k) - t
        q  == <<1>> \o DivLimbs(r0, t, 4)
        r4 == DivRem(r0, t, 4)
        g  == IF 2 * r4 >= t THEN 1 ELSE 0
        r5 == 2 * r4 - g * t
    IN  Normalize(RoundHalfEven(q, g, r5 # 0), 0 - (k + 4 * LimbBits))

RECURSIVE MulLimbs(_, _, _)
MulLimbs(m, n, carry) ==
    LET i == Len(m)
        v == m[i] * n + carry
    IN  IF i = 1 THEN <<v>>
        ELSE MulLimbs(SubSeq(m, 1, i - 1), n, v \div LimbBase) \o <<v % LimbBase>>

ShiftRight(p, s) ==
    [i \in 1..Len(p) |->
        IF i = 1 THEN p[1] \div Pow2(s)
        ELSE (p[i] \div Pow2(s)) + (p[i - 1] % Pow2(s)) * Pow2(LimbBits - s)]

FloatMul(x, n) ==
    LET p  == MulLimbs(x.m, n, 0)
        s  == BitLen(p[1]) - 1
        lo == p[Len(p)] % Pow2(s)
        g  == IF s = 0 THEN 0 ELSE lo \div Pow2(s - 1)
        st == IF s = 0 THEN FALSE ELSE lo % Pow2(s - 1) # 0
    IN  Normalize(RoundHalfEven(ShiftRight(p, s), g, st), x.e + s)

IntTrunc(x) ==
    LET sh == 0 - x.e
        m  == x.m
    IN  IF sh >= 4 * LimbBits + 1 THEN 0
        ELSE IF sh = 4 * LimbBits THEN m[1]
        ELSE IF sh >= 3 * LimbBits
             THEN (m[1] * LimbBase + m[2]) \div Pow2(sh - 3 * LimbBits)
        ELSE (m[1] * LimbBase * LimbBase + m[2] * LimbBase + m[3]) \div Pow2(sh - 2 * LimbBits)

progress_percentage(completed, total) ==
    IF total > 0
    THEN IF completed = 0 THEN 0 ELSE IntTrunc(FloatMul(TrueDiv(completed, total), 100))
    ELSE 0

(* ------------------------------- state --------------------------------- *)

Reqs == 1..NumReq

VARIABLES
    progress,      \* Progress table: rows [pk, user, lesson, completed, completed_at]
    enrollments,   \* Enrollment table: rows [pk, user, course, completed]
    now,           \* timezone.now(), a logical clock
    req,           \* per worker: the toggle request it is serving
    started,       \* number of toggle requests sent so far
    out,           \* the request answered by the step just taken, with its response
    cart,          \* request.session['cart'] of each user's session: course ids
    orders,        \* Order table: rows [pk, user, status]
    order_items,   \* OrderItem table: rows [pk, order, course, price]
    calc,          \* one evaluation of the percentage expression: its operands and value
    catalog,       \* the stored courses, modules and lessons (pks) and the published courses
    reviews,       \* Review table: rows [pk, user, course, rating, text]
    job,           \* per worker: the enroll, checkout or review request it is serving
    sent           \* number of such requests sent so far

shop == <<cart, orders, order_items>>
site == <<catalog, reviews, job, sent>>
vars == <<progress, enrollments, now, req, started, out, cart, orders, order_items, calc,
          catalog, reviews, job, sent>>

\* the catalog as first stored
InitialCatalog ==
    [courses |-> CourseIds, modules |-> InitialModules, lessons |-> InitialLessons,
     published |-> {c \in CourseIds : Course[c].is_published},
     lesson_published |-> {l \in InitialLessons : Lesson[l].is_published},
     module_title |-> [m \in ModuleIds |-> InitialTitle],
     module_seq |-> Cardinality(InitialModules) + 1,
     lesson_seq |-> Cardinality(InitialLessons) + 1]

NoObj == [pk |-> <<>>, completed |-> FALSE, completed_at |-> <<>>]
NoResponse == [status |-> 0]

\* a worker that serves no request; before, since and concurrent are history:
\* the stored row of (user, lesson) and the clock when the request was admitted,
\* the (user, lesson) pairs of the toggles in progress at the same time, the
\* user's completed counts of the module and the course at admission,
\* whether the INSERT of get_or_create met the unique constraint, and whether
\* a toggle to completed = false of the same pair was in progress at the same time
IdleReq ==
    [pc |-> "idle", user |-> AnonymousUser, lesson_id |-> <<>>, completed |-> FALSE,
     lesson |-> 0, obj |-> NoObj, created |-> FALSE,
     module_completed |-> 0, module_total |-> 0,
     before |-> NoObj, since |-> 0, concurrent |-> {}, before_counts |-> <<0, 0>>,
     conflict |-> FALSE, cleared |-> FALSE, response |-> NoResponse]

NoOut == [IdleReq EXCEPT !.pc = "none"]

Jobs == 1..NumJobs

\* a worker that serves no enroll, checkout or review request; cart and
\* published, the session cart and the published courses when the request was
\* admitted, are history
IdleJob ==
    [view |-> "none", pc |-> "idle", user |-> AnonymousUser, method |-> "none", pk |-> 0,
     courses |-> <<>>, order |-> 0, cart |-> <<>>, published |-> {},
     rating |-> 0, text |-> <<>>]

Busy(w) == job[w].pc # "idle"

\* the lowest free worker takes the next request
FreeJob(w) == ~Busy(w) /\ \A v \in Jobs : v < w => Busy(v)

\* the response leaves the view: the worker is free again
Serve(w, j, resp) ==
    /\ out' = [pc |-> "served", view |-> j.view, user |-> j.user, pk |-> j.pk,
               job |-> j, response |-> resp]
    /\ job' = [job EXCEPT ![w] = IdleJob]

Redirect(to, message) == [status |-> 302, to |-> to, message |-> message]
ServerError(why) == [status |-> 500, error |-> why]

Active(r) == req[r].pc # "idle"

\* The primary key of a new row. The views never look at its value, only at
\* its identity, so it is kept as the pair the row is made for and the number
\* of rows already stored for that pair.
NewPk(rows, pair) ==
    pair \o <<Cardinality({p \in rows : <<p.pk[1], p.pk[2]>> = pair}) + 1>>

(* ------------------------------ Progress ------------------------------- *)

\* mutant: the lookup without the user filter
ProgressOfAnyUser(rows, u, l) == {p \in rows : p.lesson = l}

\* Progress.objects.filter(user=, lesson=)
ProgressOf(rows, u, l) == {p \in rows : p.user = u /\ p.lesson = l}

\* mutant: save() without its elif branch, completed_at survives an un-complete
ProgressSaveKeepsTimestamp(obj, t) ==
    IF obj.completed /\ obj.completed_at = None
    THEN [obj EXCEPT !.completed_at = <<t>>]
    ELSE obj

\* mutant: save() that stamps every completed save anew
ProgressSaveRefresh(obj, t) ==
    IF obj.completed
    THEN [obj EXCEPT !.completed_at = <<t>>]
    ELSE [obj EXCEPT !.completed_at = None]

\* mutant: save() that leaves the timestamp alone when completed is false
ProgressSaveFirstCompletion(obj, t) ==
    IF ~obj.completed
    THEN obj
    ELSE IF obj.completed_at = None
         THEN [obj EXCEPT !.completed_at = <<t>>]
         ELSE obj

\* Progress.save(): the fields written, given the clock reading t
ProgressSave(obj, t) ==
    IF obj.completed /\ obj.completed_at = None
    THEN [obj EXCEPT !.completed_at = <<t>>]
    ELSE IF ~obj.completed
         THEN [obj EXCEPT !.completed_at = None]
         ELSE obj

\* whether Progress.save() reads timezone.now()
ReadsClock(obj) == obj.completed /\ obj.completed_at = None

\* mutant: no unique constraint on the table
ProgressUniqueUnchecked(rows, u, l) == TRUE

\* unique_together = ['user', 'lesson']: the INSERT is rejected (IntegrityError)
\* when a row with the same pair is already stored
ProgressUnique(rows, u, l) == ProgressOf(rows, u, l) = {}

\* mutant: the second get of get_or_create finds nothing, IntegrityError is re-raised
GetAfterIntegrityErrorMisses(rows, u, l) == {}

\* get_or_create after IntegrityError: self.get(**kwargs) once more
GetAfterIntegrityError(rows, u, l) == ProgressOf(rows, u, l)

\* mutant: a row stored as completed is never written again
ProgressUpdateCompleteIsFinal(rows, obj) ==
    {IF p.pk = obj.pk /\ ~p.completed THEN obj ELSE p : p \in rows}

\* mutant: the update branch never calls save()
ProgressUpdateSkipped(rows, obj) == rows

\* the UPDATE of save() on an existing instance: all fields of the row with its pk
ProgressUpdate(rows, obj) == {IF p.pk = obj.pk THEN obj ELSE p : p \in rows}

\* mutant: get_or_create without defaults, the model default completed=False
NewProgressNoDefaults(rows, u, l, completed) ==
    [pk |-> NewPk(rows, <<u, l>>), user |-> u, lesson |-> l,
     completed |-> FALSE, completed_at |-> None]

\* the instance get_or_create builds: the lookup fields and defaults={'completed': completed}
NewProgress(rows, u, l, completed) ==
    [pk |-> NewPk(rows, <<u, l>>), user |-> u, lesson |-> l,
     completed |-> completed, completed_at |-> None]

(* ------------------------------ roll-ups ------------------------------- *)

\* mutant: the module count without the user filter
ModuleCompletedAllUsers(rows, u, m) ==
    Cardinality({p \in rows : Lesson[p.lesson].module = m /\ p.completed})

\* Progress.objects.filter(user=, lesson__module=, completed=True).count()
ModuleCompleted(rows, u, m) ==
    Cardinality({p \in rows : p.user = u /\ Lesson[p.lesson].module = m /\ p.completed})

\* module.lessons.count()
ModuleTotal(m) == Cardinality({l \in catalog.lessons : Lesson[l].module = m})

\* Progress.objects.filter(user=, lesson__module__course=, completed=True).count()
CourseCompleted(rows, u, c) ==
    Cardinality({p \in rows : p.user = u /\ LessonCourse(p.lesson) = c /\ p.completed})

\* Lesson.objects.filter(module__course=course).count()
CourseTotal(c) == Cardinality({l \in catalog.lessons : LessonCourse(l) = c})

\* completed_at.strftime('%d.%m.%Y %H:%M'): the minute of the instant
Strftime(at) == IF at = None THEN None ELSE <<at[1] \div TicksPerMinute>>

(* ----------------------------- Enrollment ------------------------------ *)

\* mutant: the enrollment check without the course filter
IsEnrolledAnyCourse(rows, u, c) == \E e \in rows : e.user = u

\* mutant: an enrollment check that every user passes
IsEnrolledAlways(rows, u, c) == TRUE

\* request.user.enrollment_set.filter(course=course).exists()
IsEnrolled(rows, u, c) == \E e \in rows : e.user = u /\ e.course = c

\* mutant: no unique constraint on the table
EnrollmentUniqueUnchecked(rows, u, c) == TRUE

\* unique_together = ['user', 'course']: the INSERT is rejected (IntegrityError)
\* when a row with the same pair is already stored
EnrollmentUnique(rows, u, c) == ~\E e \in rows : e.user = u /\ e.course = c

\* Enrollment(user=, course=): a new row, completed defaults to False
NewEnrollment(rows, u, c) ==
    [pk |-> NewPk(rows, <<u, c>>), user |-> u, course |-> c, completed |-> FALSE]

\* quick_enroll served with no other request in between: POST only, 404 for an
\* unknown course, exists() then create()
quick_enroll(u, method, pk) ==
    /\ u \in Users
    /\ IF method = "POST" /\ pk \in catalog.courses /\ ~IsEnrolled(enrollments, u, pk)
       THEN enrollments' = enrollments \cup {NewEnrollment(enrollments, u, pk)}
       ELSE UNCHANGED enrollments
    /\ out' = NoOut
    /\ UNCHANGED <<progress, now, req, started, shop, calc, site>>

\* Enrollment.objects.get_or_create(user=, course=)
EnrollmentGetOrCreate(rows, u, c) ==
    IF IsEnrolled(rows, u, c) THEN rows
    ELSE rows \cup {NewEnrollment(rows, u, c)}

(* ------------------------- cart and checkout --------------------------- *)

Contains(seq, x) == \E i \in 1..Len(seq) : seq[i] = x

\* list.remove(x): drops the first occurrence
Remove(seq, x) ==
    LET i == CHOOSE j \in 1..Len(seq) : seq[j] = x /\ \A k \in 1..(j - 1) : seq[k] # x
    IN  SubSeq(seq, 1, i - 1) \o SubSeq(seq, i + 1, Len(seq))

\* AddToCartView.post: 404 unless the course is published, append once
AddToCartView(u, pk) ==
    /\ u \in Users
    /\ IF pk \in catalog.courses /\ pk \in catalog.published /\ ~Contains(cart[u], pk)
       THEN cart' = [cart EXCEPT ![u] = Append(@, pk)]
       ELSE UNCHANGED cart
    /\ out' = NoOut
    /\ UNCHANGED <<progress, enrollments, now, req, started, orders, order_items, calc, site>>

\* RemoveFromCartView.post
RemoveFromCartView(u, pk) ==
    /\ u \in Users
    /\ IF Contains(cart[u], pk)
       THEN cart' = [cart EXCEPT ![u] = Remove(@, pk)]
       ELSE UNCHANGED cart
    /\ out' = NoOut
    /\ UNCHANGED <<progress, enrollments, now, req, started, orders, order_items, calc, site>>

\* CheckoutView.get_cart_courses: Course.objects.filter(id__in=cart, is_published=True)
get_cart_courses(u) ==
    {c \in catalog.courses : Contains(cart[u], c) /\ c \in catalog.published}

\* mutant: the item carries the course price also for a free course
ItemPriceOfCourse(c) == Course[c].price

\* price=0 if course.is_free else course.price
ItemPrice(c) == IF Course[c].is_free THEN 0 ELSE Course[c].price

\* Course.Meta.ordering = ['-created_at']: the newest course first; courses
\* are numbered in the order they were created
RECURSIVE ByNewest(_)
ByNewest(S) ==
    IF S = {} THEN <<>>
    ELSE LET c == CHOOSE x \in S : \A y \in S : y <= x
         IN  <<c>> \o ByNewest(S \ {c})

\* OrderItem.objects.create: the id is the next of the table's sequence (no
\* view deletes an order item)
NewOrderItem(rows, order_pk, c) ==
    [pk |-> Cardinality(rows) + 1, order |-> order_pk, course |-> c, price |-> ItemPrice(c)]

\* the rows after the loop over the courses, one OrderItem each
RECURSIVE CreateItems(_, _, _)
CreateItems(rows, order_pk, courses) ==
    IF courses = <<>> THEN rows
    ELSE CreateItems(rows \cup {NewOrderItem(rows, order_pk, Head(courses))},
                     order_pk, Tail(courses))

RECURSIVE EnrollAll(_, _, _)
EnrollAll(rows, u, courses) ==
    IF courses = {} THEN rows
    ELSE LET c == CHOOSE x \in courses : TRUE
         IN  EnrollAll(EnrollmentGetOrCreate(rows, u, c), u, courses \ {c})

\* CheckoutView.post served with no other request in between: one paid order,
\* an item and an enrollment per course, then the cart is emptied
CheckoutView(u) ==
    LET courses == get_cart_courses(u)
        order == [pk |-> Cardinality(orders) + 1, user |-> u, status |-> "paid"]
    IN  /\ u \in Users
        /\ IF courses = {}
           THEN UNCHANGED <<enrollments, cart, orders, order_items>>
           ELSE /\ Cardinality(orders) < MaxOrders
                /\ orders' = orders \cup {order}
                /\ order_items' = CreateItems(order_items, order.pk, ByNewest(courses))
                /\ enrollments' = EnrollAll(enrollments, u, courses)
                /\ cart' = [cart EXCEPT ![u] = <<>>]
        /\ out' = NoOut
        /\ UNCHANGED <<progress, now, req, started, calc, site>>

(* -------------------- MarkLessonCompletedView.post --------------------- *)

ErrorResponse(code, why) == [status |-> code, success |-> FALSE, error |-> why]

\* the response leaves the view: the worker is free again
Respond(r, q, resp) ==
    /\ out' = [q EXCEPT !.pc = "done", !.response = resp]
    /\ req' = [req EXCEPT ![r] = IdleReq]

\* the lowest free worker takes the next request
FreeReq(r) == ~Active(r) /\ \A q \in Reqs : q < r => Active(q)

\* request.POST.get('completed') == 'true'
CompletedFlag(param) == param = Str(<<"t", "r", "u", "e">>)

\* dispatch (LoginRequiredMixin), parameter checks, lesson lookup, enrollment check
ToggleBegin(r, u, lesson_id, completed_param) ==
    LET fresh == [IdleReq EXCEPT !.user = u, !.lesson_id = lesson_id,
                                 !.completed = CompletedFlag(completed_param)]
        key(q) == <<req[q].user, req[q].lesson>>
        reject(code, why) == Respond(r, fresh, ErrorResponse(code, why))
    IN  /\ FreeReq(r)
        /\ started' = started + 1
        /\ IF u = AnonymousUser
           THEN reject(302, "login")
           ELSE IF lesson_id = None \/ lesson_id[1] = <<>>
           THEN reject(400, "no_lesson_id")
           ELSE IF ~IsIntLiteral(lesson_id[1])
           THEN reject(500, "ValueError")
           ELSE IF ParseInt(lesson_id[1]) \notin catalog.lessons
           THEN reject(404, "Http404")
           ELSE IF ~IsEnrolled(enrollments, u, LessonCourse(ParseInt(lesson_id[1])))
           THEN reject(403, "not_enrolled")
           ELSE LET l == ParseInt(lesson_id[1])
                    others == {q \in Reqs \ {r} : Active(q)}
                    stored == ProgressOf(progress, u, l)
                IN  /\ out' = NoOut
                    /\ req' = [q \in Reqs |->
                                IF q = r
                                THEN [fresh EXCEPT
                                        !.pc = "get", !.lesson = l,
                                        !.before = IF stored = {} THEN NoObj
                                                   ELSE CHOOSE p \in stored : TRUE,
                                        !.since = now,
                                        !.before_counts =
                                            <<ModuleCompleted(progress, u, Lesson[l].module),
                                              CourseCompleted(progress, u, LessonCourse(l))>>,
                                        !.concurrent = {key(o) : o \in others},
                                        !.cleared = \E o \in others :
                                                       key(o) = <<u, l>> /\ ~req[o].completed]
                                ELSE IF q \in others
                                THEN [req[q] EXCEPT
                                        !.concurrent = @ \cup {<<u, l>>},
                                        !.cleared = \/ @
                                                    \/ /\ key(q) = <<u, l>>
                                                       /\ ~CompletedFlag(completed_param)]
                                ELSE req[q]]
        /\ UNCHANGED <<progress, enrollments, now, shop, calc, site>>

\* get_or_create, first half: the SELECT
ToggleGet(r) ==
    LET found == ProgressOf(progress, req[r].user, req[r].lesson)
    IN  /\ req[r].pc = "get"
        /\ IF found = {}
           THEN req' = [req EXCEPT ![r].pc = "create"] /\ out' = NoOut
           ELSE IF Cardinality(found) > 1
           THEN Respond(r, req[r], ErrorResponse(500, "MultipleObjectsReturned"))
           ELSE /\ req' = [req EXCEPT ![r].pc = "save",
                                      ![r].obj = CHOOSE p \in found : TRUE]
                /\ out' = NoOut
        /\ UNCHANGED <<progress, enrollments, now, started, shop, calc, site>>

\* get_or_create, second half: create(defaults) and, on IntegrityError (the
\* unique constraint, or the foreign key to a lesson deleted meanwhile), get again
ToggleCreate(r) ==
    LET u == req[r].user
        l == req[r].lesson
        new == NewProgress(progress, u, l, req[r].completed)
        row == ProgressSave(new, now)
        again == GetAfterIntegrityError(progress, u, l)
    IN  /\ req[r].pc = "create"
        /\ IF l \in catalog.lessons /\ ProgressUnique(progress, u, l)
           THEN /\ progress' = progress \cup {row}
                /\ now' = IF ReadsClock(new) THEN now + 1 ELSE now
                /\ req' = [req EXCEPT ![r].pc = "module_rollup", ![r].obj = row,
                                      ![r].created = TRUE]
                /\ out' = NoOut
           ELSE IF again = {}
           THEN /\ Respond(r, [req[r] EXCEPT !.conflict = TRUE],
                           ErrorResponse(500, "IntegrityError"))
                /\ UNCHANGED <<progress, now>>
           ELSE /\ req' = [req EXCEPT ![r].pc = "save", ![r].conflict = TRUE,
                                      ![r].obj = CHOOSE p \in again : TRUE]
                /\ out' = NoOut
                /\ UNCHANGED <<progress, now>>
        /\ UNCHANGED <<enrollments, started, shop, calc, site>>

\* if not created: progress.completed = completed; progress.save(). save()
\* updates the row of its pk and, when no such row is left, inserts it, which
\* the foreign key to a deleted lesson and the unique constraint can reject
ToggleSave(r) ==
    LET obj == [req[r].obj EXCEPT !.completed = req[r].completed]
        row == ProgressSave(obj, now)
        stored == \E p \in progress : p.pk = row.pk
        insertable == /\ row.lesson \in catalog.lessons
                      /\ ProgressUnique(progress, row.user, row.lesson)
    IN  /\ req[r].pc = "save"
        /\ IF stored \/ insertable
           THEN /\ progress' = IF stored THEN ProgressUpdate(progress, row)
                                ELSE progress \cup {row}
                /\ now' = IF ReadsClock(obj) THEN now + 1 ELSE now
                /\ req' = [req EXCEPT ![r].pc = "module_rollup", ![r].obj = row]
                /\ out' = NoOut
           ELSE /\ Respond(r, req[r], ErrorResponse(500, "IntegrityError"))
                /\ now' = IF ReadsClock(obj) THEN now + 1 ELSE now
                /\ UNCHANGED progress
        /\ UNCHANGED <<enrollments, started, shop, calc, site>>

\* mutant: the module count taken before the write of the request
ToggleModuleRollupStale(r) ==
    LET m == Lesson[req[r].lesson].module
    IN  /\ req[r].pc = "module_rollup"
        /\ req' = [req EXCEPT ![r].pc = "course_rollup",
                              ![r].module_completed = req[r].before_counts[1],
                              ![r].module_total = ModuleTotal(m)]
        /\ out' = NoOut
        /\ UNCHANGED <<progress, enrollments, now, started, shop, calc, site>>

\* the module aggregate query
ToggleModuleRollup(r) ==
    LET m == Lesson[req[r].lesson].module
    IN  /\ req[r].pc = "module_rollup"
        /\ req' = [req EXCEPT ![r].pc = "course_rollup",
                              ![r].module_completed = ModuleCompleted(progress, req[r].user, m),
                              ![r].module_total = ModuleTotal(m)]
        /\ out' = NoOut
        /\ UNCHANGED <<progress, enrollments, now, started, shop, calc, site>>

\* the course aggregate query and the JsonResponse
ToggleCourseRollup(r) ==
    LET c == LessonCourse(req[r].lesson)
        course_completed == CourseCompleted(progress, req[r].user, c)
        course_total == CourseTotal(c)
        resp == [status |-> 200, success |-> TRUE,
                 completed |-> req[r].obj.completed,
                 completed_at |-> Strftime(req[r].obj.completed_at),
                 module_progress |->
                     progress_percentage(req[r].module_completed, req[r].module_total),
                 course_progress |-> progress_percentage(course_completed, course_total),
                 module_completed |-> req[r].module_completed,
                 module_total |-> req[r].module_total,
                 course_completed |-> course_completed,
                 course_total |-> course_total,
                 message |-> IF req[r].completed THEN "completed" ELSE "not_completed"]
    IN  /\ req[r].pc = "course_rollup"
        /\ Respond(r, req[r], resp)
        /\ UNCHANGED <<progress, enrollments, now, started, shop, calc, site>>

(* ------------------ enroll views, step by step ------------------------ *)

\* mutant: a quick enrollment offered for published free courses only
QuickEnrollBeginFreeOnly(w, u, method, pk) ==
    LET fresh == [IdleJob EXCEPT !.view = "quick_enroll", !.user = u, !.method = method,
                                 !.pk = pk]
    IN  /\ FreeJob(w)
        /\ sent < MaxJobs
        /\ sent' = sent + 1
        /\ IF u = AnonymousUser
           THEN Serve(w, fresh, Redirect("login", "none"))
           ELSE IF method # "POST"
           THEN Serve(w, fresh, Redirect("course_detail", "none"))
           ELSE IF pk \notin catalog.courses \/ pk \notin catalog.published \/ ~Course[pk].is_free
           THEN Serve(w, fresh, [status |-> 404, error |-> "Http404"])
           ELSE IF IsEnrolled(enrollments, u, pk)
           THEN Serve(w, fresh, Redirect("course_detail", "already_enrolled"))
           ELSE /\ job' = [job EXCEPT ![w] = [fresh EXCEPT !.pc = "create"]]
                /\ out' = NoOut
        /\ UNCHANGED <<progress, enrollments, now, req, started, shop, calc, catalog, reviews>>

\* quick_enroll up to the exists() query: login_required, POST only, 404 for an
\* unknown course, a warning when the enrollment is found
QuickEnrollBegin(w, u, method, pk) ==
    LET fresh == [IdleJob EXCEPT !.view = "quick_enroll", !.user = u, !.method = method,
                                 !.pk = pk]
    IN  /\ FreeJob(w)
        /\ sent < MaxJobs
        /\ sent' = sent + 1
        /\ IF u = AnonymousUser
           THEN Serve(w, fresh, Redirect("login", "none"))
           ELSE IF method # "POST"
           THEN Serve(w, fresh, Redirect("course_detail", "none"))
           ELSE IF pk \notin catalog.courses
           THEN Serve(w, fresh, [status |-> 404, error |-> "Http404"])
           ELSE IF IsEnrolled(enrollments, u, pk)
           THEN Serve(w, fresh, Redirect("course_detail", "already_enrolled"))
           ELSE /\ job' = [job EXCEPT ![w] = [fresh EXCEPT !.pc = "create"]]
                /\ out' = NoOut
        /\ UNCHANGED <<progress, enrollments, now, req, started, shop, calc, catalog, reviews>>

\* quick_enroll: Enrollment.objects.create(user=, course=) and the redirect
QuickEnrollCreate(w) ==
    LET j == job[w]
    IN  /\ j.view = "quick_enroll" /\ j.pc = "create"
        /\ IF j.pk \in catalog.courses /\ EnrollmentUnique(enrollments, j.user, j.pk)
           THEN /\ enrollments' = enrollments \cup {NewEnrollment(enrollments, j.user, j.pk)}
                /\ Serve(w, j, Redirect("course_detail", "enrolled"))
           ELSE /\ Serve(w, j, ServerError("IntegrityError"))
                /\ UNCHANGED enrollments
        /\ UNCHANGED <<progress, now, req, started, shop, calc, catalog, reviews, sent>>

\* EnrollmentForm.__init__: the courses the form offers
EnrollmentFormQueryset(u) ==
    {c \in catalog.courses : c \in catalog.published /\ ~IsEnrolled(enrollments, u, c)}

FormInvalid(why) == [status |-> 200, errors |-> why]

\* EnrollView POST up to the validation of the course field against the queryset
EnrollViewBegin(w, u, course) ==
    LET fresh == [IdleJob EXCEPT !.view = "enroll", !.user = u, !.method = "POST",
                                 !.pk = course]
    IN  /\ FreeJob(w)
        /\ sent < MaxJobs
        /\ sent' = sent + 1
        /\ IF u = AnonymousUser
           THEN Serve(w, fresh, Redirect("login", "none"))
           ELSE IF course \notin EnrollmentFormQueryset(u)
           THEN Serve(w, fresh, FormInvalid("invalid_choice"))
           ELSE /\ job' = [job EXCEPT ![w] = [fresh EXCEPT !.pc = "clean"]]
                /\ out' = NoOut
        /\ UNCHANGED <<progress, enrollments, now, req, started, shop, calc, catalog, reviews>>

\* EnrollmentForm.clean: ValidationError when the enrollment is found
EnrollViewClean(w) ==
    LET j == job[w]
    IN  /\ j.view = "enroll" /\ j.pc = "clean"
        /\ IF IsEnrolled(enrollments, j.user, j.pk)
           THEN Serve(w, j, FormInvalid("already_enrolled"))
           ELSE /\ job' = [job EXCEPT ![w].pc = "save"]
                /\ out' = NoOut
        /\ UNCHANGED <<progress, enrollments, now, req, started, shop, calc, catalog, reviews, sent>>

\* EnrollView.form_valid: form.save() and the redirect
EnrollViewSave(w) ==
    LET j == job[w]
    IN  /\ j.view = "enroll" /\ j.pc = "save"
        /\ IF j.pk \notin catalog.courses
           THEN /\ Serve(w, j, ServerError("IntegrityError"))
                /\ UNCHANGED enrollments
           ELSE IF EnrollmentUnique(enrollments, j.user, j.pk)
           THEN /\ enrollments' = enrollments \cup {NewEnrollment(enrollments, j.user, j.pk)}
                /\ Serve(w, j, Redirect("course_detail", "enrolled"))
           ELSE /\ Serve(w, j, ServerError("IntegrityError"))
                /\ UNCHANGED enrollments
        /\ UNCHANGED <<progress, now, req, started, shop, calc, catalog, reviews, sent>>

(* ------------------------ checkout, step by step ----------------------- *)

\* CheckoutView.post up to Order.objects.create: the cart is read once
CheckoutBegin(w, u) ==
    LET fresh == [IdleJob EXCEPT !.view = "checkout", !.user = u, !.method = "POST",
                                 !.cart = IF u \in Users THEN cart[u] ELSE <<>>,
                                 !.published = catalog.published]
        order == [pk |-> Cardinality(orders) + 1, user |-> u, status |-> "paid"]
    IN  /\ FreeJob(w)
        /\ sent < MaxJobs
        /\ sent' = sent + 1
        /\ IF u = AnonymousUser
           THEN Serve(w, fresh, Redirect("login", "none")) /\ UNCHANGED orders
           ELSE IF get_cart_courses(u) = {}
           THEN Serve(w, fresh, Redirect("cart", "empty")) /\ UNCHANGED orders
           ELSE /\ Cardinality(orders) < MaxCheckouts
                /\ orders' = orders \cup {order}
                /\ job' = [job EXCEPT ![w] =
                              [fresh EXCEPT !.pc = "item", !.order = order.pk,
                                            !.courses = ByNewest(get_cart_courses(u))]]
                /\ out' = NoOut
        /\ UNCHANGED <<progress, enrollments, now, req, started, cart, order_items, calc,
                       catalog, reviews>>

\* mutant: a loop inside a transaction, which takes the order and its items
\* back when a write fails
CheckoutItemAtomic(w) ==
    LET j == job[w]
        c == Head(j.courses)
        left == Tail(j.courses)
    IN  /\ j.view = "checkout" /\ j.pc = "item"
        /\ IF c \notin catalog.courses
           THEN /\ Serve(w, j, ServerError("IntegrityError"))
                /\ orders' = {o \in orders : o.pk # j.order}
                /\ order_items' = {i \in order_items : i.order # j.order}
                /\ UNCHANGED enrollments
           ELSE /\ order_items' = order_items \cup {NewOrderItem(order_items, j.order, c)}
                /\ enrollments' = EnrollmentGetOrCreate(enrollments, j.user, c)
                /\ job' = [job EXCEPT ![w].courses = left,
                                      ![w].pc = IF left = <<>> THEN "finish" ELSE "item"]
                /\ out' = NoOut
                /\ UNCHANGED orders
        /\ UNCHANGED <<progress, now, req, started, cart, calc, catalog, reviews, sent>>

\* one round of the loop: OrderItem.objects.create, Enrollment get_or_create
CheckoutItem(w) ==
    LET j == job[w]
        c == Head(j.courses)
        left == Tail(j.courses)
    IN  /\ j.view = "checkout" /\ j.pc = "item"
        /\ IF c \notin catalog.courses
           THEN /\ Serve(w, j, ServerError("IntegrityError"))
                /\ UNCHANGED <<order_items, enrollments>>
           ELSE /\ order_items' = order_items \cup {NewOrderItem(order_items, j.order, c)}
                /\ enrollments' = EnrollmentGetOrCreate(enrollments, j.user, c)
                /\ job' = [job EXCEPT ![w].courses = left,
                                      ![w].pc = IF left = <<>> THEN "finish" ELSE "item"]
                /\ out' = NoOut
        /\ UNCHANGED <<progress, now, req, started, cart, orders, calc, catalog, reviews, sent>>

\* request.session['cart'] = [] and the redirect to the order history
CheckoutFinish(w) ==
    LET j == job[w]
    IN  /\ j.view = "checkout" /\ j.pc = "finish"
        /\ cart' = [cart EXCEPT ![j.user] = <<>>]
        /\ Serve(w, j, Redirect("orders_history", "ordered"))
        /\ UNCHANGED <<progress, enrollments, now, req, started, orders, order_items, calc,
                       catalog, reviews, sent>>

(* ------------------------------ reviews -------------------------------- *)
(* The text of a review is a sequence of Unicode code points.              *)

MinTextLength == 10
MaxTextLength == 1000

\* the code points str.strip() removes
Whitespace ==
    {9, 10, 11, 12, 13, 28, 29, 30, 31, 32, 133, 160, 5760} \cup (8192..8202)
    \cup {8232, 8233, 8239, 8287, 12288}

RECURSIVE LStrip(_)
LStrip(t) == IF t # <<>> /\ Head(t) \in Whitespace THEN LStrip(Tail(t)) ELSE t

RECURSIVE RStrip(_)
RStrip(t) ==
    IF t # <<>> /\ t[Len(t)] \in Whitespace THEN RStrip(SubSeq(t, 1, Len(t) - 1)) ELSE t

\* str.strip()
Strip(t) == RStrip(LStrip(t))

\* str.lower() on Latin and Cyrillic letters
Lower(t) ==
    [i \in 1..Len(t) |->
        IF t[i] \in 65..90 \/ t[i] \in 1040..1071 THEN t[i] + 32
        ELSE IF t[i] \in 1024..1039 THEN t[i] + 80
        ELSE t[i]]

\* word in text
Within(word, t) ==
    \E i \in 1..(Len(t) - Len(word) + 1) : SubSeq(t, i, i + Len(word) - 1) = word

\* forbidden_words of ReviewForm.clean_text
ForbiddenWords ==
    {<<1089, 1087, 1072, 1084>>,
     <<1088, 1077, 1082, 1083, 1072, 1084, 1072>>,
     <<1082, 1091, 1087, 1080, 1090, 1100>>,
     <<1087, 1088, 1086, 1076, 1072, 1090, 1100>>,
     <<1088, 1077, 1082, 1083, 1072, 1084, 1099>>}

\* RATING_CHOICES
RatingChoices == 1..5

\* the text field of ReviewForm: the form field strips the value and requires
\* it, max_length comes from the model field, then clean_text; the result is
\* the cleaned text in <<...>>, or None when the field has an error
CleanText(raw) ==
    LET text == Strip(raw)
    IN  IF text = <<>> \/ Len(text) > MaxTextLength THEN None
        ELSE IF Len(Strip(text)) < MinTextLength THEN None
        ELSE IF Len(text) > MaxTextLength THEN None
        ELSE IF \E word \in ForbiddenWords : Within(word, Lower(text)) THEN None
        ELSE <<text>>

\* ReviewForm.is_valid()
ReviewFormValid(rating, raw) == rating \in RatingChoices /\ CleanText(raw) # None

\* mutant: no unique constraint on the table
ReviewUniqueUnchecked(rows, u, c) == TRUE

\* unique_together = ['course', 'user']
ReviewUnique(rows, u, c) == ~\E v \in rows : v.user = u /\ v.course = c

\* Review.objects.filter(course=, user=).exists()
ReviewExists(rows, u, c) == \E v \in rows : v.user = u /\ v.course = c

\* AddReviewView POST up to the exists() query of form_valid: login, the form
\* (an invalid form is shown again, 404 for an unknown course), the course
\* lookup, the redirect when the user has a review of the course
AddReviewBegin(w, u, pk, rating, raw) ==
    LET fresh == [IdleJob EXCEPT !.view = "add_review", !.user = u, !.method = "POST",
                                 !.pk = pk, !.rating = rating, !.text = raw]
    IN  /\ FreeJob(w)
        /\ sent < MaxJobs
        /\ sent' = sent + 1
        /\ IF u = AnonymousUser
           THEN Serve(w, fresh, Redirect("login", "none"))
           ELSE IF pk \notin catalog.courses
           THEN Serve(w, fresh, [status |-> 404, error |-> "Http404"])
           ELSE IF ~ReviewFormValid(rating, raw)
           THEN Serve(w, fresh, FormInvalid("invalid"))
           ELSE IF ReviewExists(reviews, u, pk)
           THEN Serve(w, fresh, Redirect("course_detail", "already_reviewed"))
           ELSE /\ job' = [job EXCEPT ![w] = [fresh EXCEPT !.pc = "save",
                                                          !.text = CleanText(raw)[1]]]
                /\ out' = NoOut
        /\ UNCHANGED <<progress, enrollments, now, req, started, shop, calc, catalog, reviews>>

\* super().form_valid(form): form.save() and the redirect
AddReviewSave(w) ==
    LET j == job[w]
    IN  /\ j.view = "add_review" /\ j.pc = "save"
        /\ IF j.pk \in catalog.courses /\ ReviewUnique(reviews, j.user, j.pk)
           THEN /\ reviews' = reviews \cup
                       {[pk |-> NewPk(reviews, <<j.user, j.pk>>), user |-> j.user,
                         course |-> j.pk, rating |-> j.rating, text |-> j.text]}
                /\ Serve(w, j, Redirect("course_detail", "reviewed"))
           ELSE /\ Serve(w, j, ServerError("IntegrityError"))
                /\ UNCHANGED reviews
        /\ UNCHANGED <<progress, enrollments, now, req, started, shop, calc, catalog, sent>>

(* ------------------------- module detail page -------------------------- *)

\* a view that is served in one step
Answer(view, u, pk, resp) ==
    out' = [pc |-> "served", view |-> view, user |-> u, pk |-> pk,
            job |-> IdleJob, response |-> resp]

\* the same for a view that tells GET from POST
AnswerTo(view, u, method, pk, resp) ==
    out' = [pc |-> "served", view |-> view, user |-> u, pk |-> pk,
            job |-> [IdleJob EXCEPT !.method = method], response |-> resp]

\* order_by('order') on lessons; (module, order) is unique
RECURSIVE OrderByOrder(_)
OrderByOrder(S) ==
    IF S = {} THEN <<>>
    ELSE LET l == CHOOSE x \in S : \A y \in S : Lesson[x].order <= Lesson[y].order
         IN  <<l>> \o OrderByOrder(S \ {l})

\* mutant: the row lookup without the user filter
ProgressFirstAnyUser(rows, u, l) ==
    LET found == {p \in rows : p.lesson = l}
    IN  IF found = {} THEN None
        ELSE <<CHOOSE p \in found : \A q \in found : p.pk[3] <= q.pk[3]>>

\* Progress.objects.filter(user=, lesson=).first(): the row of least pk, or None
ProgressFirst(rows, u, l) ==
    LET found == ProgressOf(rows, u, l)
    IN  IF found = {} THEN None
        ELSE <<CHOOSE p \in found : \A q \in found : p.pk[3] <= q.pk[3]>>

\* one entry of lessons_with_progress
LessonWithProgress(u, l) ==
    LET first == ProgressFirst(progress, u, l)
    IN  [lesson |-> l,
         completed |-> IF first # None THEN first[1].completed ELSE FALSE,
         completed_at |-> IF first # None THEN first[1].completed_at ELSE None]

\* ModuleDetailView GET: get_object (404 unless the module is of the course),
\* the lessons in order and, for an enrolled user, the progress entries
ModuleDetailView(u, course_pk, module_pk) ==
    LET lessons == OrderByOrder({l \in catalog.lessons : Lesson[l].module = module_pk})
        is_enrolled == u # AnonymousUser /\ IsEnrolled(enrollments, u, Module[module_pk].course)
        completed_lessons == ModuleCompleted(progress, u, module_pk)
        total_lessons == Len(lessons)
    IN  /\ IF module_pk \notin catalog.modules \/ Module[module_pk].course # course_pk
           THEN Answer("module_detail", u, module_pk, [status |-> 404, error |-> "Http404"])
           ELSE Answer("module_detail", u, module_pk,
                       [status |-> 200, lessons |-> lessons,
                        user_progress |->
                            IF is_enrolled
                            THEN <<[completed_lessons |-> completed_lessons,
                                    total_lessons |-> total_lessons,
                                    percentage |-> progress_percentage(completed_lessons,
                                                                       total_lessons)]>>
                            ELSE None,
                        lessons_with_progress |->
                            IF is_enrolled
                            THEN <<[i \in 1..Len(lessons) |-> LessonWithProgress(u, lessons[i])]>>
                            ELSE None])
        /\ UNCHANGED <<progress, enrollments, now, req, started, shop, calc, site>>

\* the position of lesson l in the ordered list lessons (list.index)
IndexOf(lessons, l) == CHOOSE i \in 1..Len(lessons) : lessons[i] = l

\* LessonDetailView GET: get_object (404 unless the lesson is of the module and
\* the module of the course; no filter on is_published and no login), the
\* neighbours in the module's order and, for an enrolled user, the progress
\* of the lesson, the module and the course
LessonDetailView(u, course_pk, module_pk, lesson_pk) ==
    LET lessons == OrderByOrder({l \in catalog.lessons : Lesson[l].module = module_pk})
        current_index == IndexOf(lessons, lesson_pk)
        is_enrolled == u # AnonymousUser /\ IsEnrolled(enrollments, u, course_pk)
        first == ProgressFirst(progress, u, lesson_pk)
        module_completed == ModuleCompleted(progress, u, module_pk)
        module_total == ModuleTotal(module_pk)
        course_completed == CourseCompleted(progress, u, course_pk)
        course_total == CourseTotal(course_pk)
    IN  /\ IF \/ lesson_pk \notin catalog.lessons \/ Lesson[lesson_pk].module # module_pk
              \/ module_pk \notin catalog.modules \/ Module[module_pk].course # course_pk
           THEN Answer("lesson_detail", u, lesson_pk, [status |-> 404, error |-> "Http404"])
           ELSE Answer("lesson_detail", u, lesson_pk,
                       [status |-> 200, lesson |-> lesson_pk,
                        is_published |-> lesson_pk \in catalog.lesson_published,
                        previous_lesson |->
                            IF current_index > 1 THEN <<lessons[current_index - 1]>> ELSE None,
                        next_lesson |->
                            IF current_index < Len(lessons)
                            THEN <<lessons[current_index + 1]>> ELSE None,
                        user_progress |->
                            IF is_enrolled
                            THEN <<[completed |->
                                        IF first # None THEN first[1].completed ELSE FALSE,
                                    completed_at |->
                                        IF first # None THEN first[1].completed_at ELSE None]>>
                            ELSE None,
                        module_progress |->
                            IF is_enrolled
                            THEN <<[completed |-> module_completed, total |-> module_total,
                                    percentage |-> IF module_total > 0
                                                   THEN progress_percentage(module_completed,
                                                                            module_total)
                                                   ELSE 0]>>
                            ELSE None,
                        course_progress |->
                            IF is_enrolled
                            THEN <<[completed |-> course_completed, total |-> course_total,
                                    percentage |-> IF course_total > 0
                                                   THEN progress_percentage(course_completed,
                                                                            course_total)
                                                   ELSE 0]>>
                            ELSE None])
        /\ UNCHANGED <<progress, enrollments, now, req, started, shop, calc, site>>

(* --------------------------- admin statistics -------------------------- *)

\* [:5] of top_courses
TopLimit == 5

\* Sum('id') over the rows of a group
RECURSIVE SumId(_)
SumId(rows) ==
    IF rows = {} THEN 0
    ELSE LET i == CHOOSE x \in rows : TRUE IN i.pk + SumId(rows \ {i})

\* Sum('price') over rows
RECURSIVE SumPrice(_)
SumPrice(rows) ==
    IF rows = {} THEN 0
    ELSE LET i == CHOOSE x \in rows : TRUE IN i.price + SumPrice(rows \ {i})

\* values('course__title').annotate(total_sold=Sum('id')): one row per title
\* that has an order item
TotalSold ==
    {[course__title |-> t,
      total_sold |-> SumId({i \in order_items : CourseTitle[i.course] = t})] :
        t \in {CourseTitle[i.course] : i \in order_items}}

\* order_by('-total_sold'): the orders the database may return the rows in;
\* the order of rows with equal total_sold is not determined
OrderedByTotal(rows) ==
    {seq \in [1..Cardinality(rows) -> rows] :
        /\ \A i, k \in 1..Cardinality(rows) : i # k => seq[i] # seq[k]
        /\ \A i, k \in 1..Cardinality(rows) : i < k => seq[i].total_sold >= seq[k].total_sold}

\* AdminStatsView GET: staff only (UserPassesTestMixin: 403, or the login page
\* for an anonymous visitor); every stored order is of the last 30 days
AdminStatsView(u) ==
    /\ IF u = AnonymousUser
       THEN Answer("admin_stats", u, 0, Redirect("login", "none"))
       ELSE IF u \notin Staff
       THEN Answer("admin_stats", u, 0, [status |-> 403, error |-> "PermissionDenied"])
       ELSE \E ranked \in OrderedByTotal(TotalSold) :
               LET paid == {o.pk : o \in {x \in orders : x.status = "paid"}}
                   top == IF Len(ranked) <= TopLimit THEN ranked
                          ELSE SubSeq(ranked, 1, TopLimit)
               IN  Answer("admin_stats", u, 0,
                          [status |-> 200, top_courses |-> top,
                           revenue_last_month |->
                               SumPrice({i \in order_items : i.order \in paid}),
                           orders_count_last_month |-> Cardinality(paid)])
    /\ UNCHANGED <<progress, enrollments, now, req, started, shop, calc, site>>

(* ---------------------------- author views ----------------------------- *)

\* mutant: a test_func that lets every signed-in user pass
IsAuthorAnyUser(u, c) == TRUE

\* test_func: request.user == course.author
IsAuthor(u, c) == u = Course[c].author

\* on_delete=CASCADE from Module to Lesson to Progress: what a delete of the
\* modules ms takes with it
DeleteModules(ms) ==
    LET ls == {l \in catalog.lessons : Lesson[l].module \in ms}
    IN  /\ catalog' = [catalog EXCEPT !.modules = @ \ ms, !.lessons = @ \ ls,
                                      !.lesson_published = @ \ ls]
        /\ progress' = {p \in progress : p.lesson \notin ls}

\* mutant: a delete that no order item holds back
ProtectedNever(pk) == FALSE

\* OrderItem.course is on_delete=PROTECT
Protected(pk) == \E i \in order_items : i.course = pk

\* CourseDeleteView: login, 404, author only (403); GET shows the confirmation
\* page, POST deletes the course and, by CASCADE, its modules, lessons,
\* progress rows, enrollments and reviews, unless an order item protects it
CourseDeleteView(u, method, pk) ==
    LET ms == {m \in catalog.modules : Module[m].course = pk}
        ls == {l \in catalog.lessons : Lesson[l].module \in ms}
        keep == UNCHANGED <<catalog, progress, enrollments, reviews>>
    IN  /\ IF u = AnonymousUser
           THEN AnswerTo("course_delete", u, method, pk, Redirect("login", "none")) /\ keep
           ELSE IF pk \notin catalog.courses
           THEN AnswerTo("course_delete", u, method, pk,
                         [status |-> 404, error |-> "Http404"]) /\ keep
           ELSE IF ~IsAuthor(u, pk)
           THEN AnswerTo("course_delete", u, method, pk,
                         [status |-> 403, error |-> "not_author"]) /\ keep
           ELSE IF method # "POST"
           THEN AnswerTo("course_delete", u, method, pk,
                         [status |-> 200, page |-> "confirm"]) /\ keep
           ELSE IF Protected(pk)
           THEN AnswerTo("course_delete", u, method, pk, ServerError("ProtectedError")) /\ keep
           ELSE /\ catalog' = [catalog EXCEPT !.courses = @ \ {pk},
                                              !.modules = @ \ ms,
                                              !.lessons = @ \ ls,
                                              !.published = @ \ {pk},
                                              !.lesson_published = @ \ ls]
                /\ progress' = {p \in progress : p.lesson \notin ls}
                /\ enrollments' = {e \in enrollments : e.course # pk}
                /\ reviews' = {v \in reviews : v.course # pk}
                /\ AnswerTo("course_delete", u, method, pk, Redirect("course_list", "deleted"))
        /\ UNCHANGED <<now, req, started, shop, calc, job, sent>>

\* ModuleDeleteView: login, 404 unless the module is of the course, author only
\* (403); GET shows the confirmation page, POST deletes the module and, by
\* CASCADE, its lessons and their progress rows
ModuleDeleteView(u, method, course_pk, module_pk) ==
    LET keep == UNCHANGED <<catalog, progress>>
    IN  /\ IF u = AnonymousUser
           THEN AnswerTo("module_delete", u, method, module_pk, Redirect("login", "none")) /\ keep
           ELSE IF module_pk \notin catalog.modules \/ Module[module_pk].course # course_pk
           THEN AnswerTo("module_delete", u, method, module_pk, 
                         [status |-> 404, error |-> "Http404"])
                /\ keep
           ELSE IF ~IsAuthor(u, course_pk)
           THEN AnswerTo("module_delete", u, method, module_pk, 
                         [status |-> 403, error |-> "not_author"])
                /\ keep
           ELSE IF method # "POST"
           THEN AnswerTo("module_delete", u, method, module_pk, 
                         [status |-> 200, page |-> "confirm"])
                /\ keep
           ELSE /\ DeleteModules({module_pk})
                /\ AnswerTo("module_delete", u, method, module_pk, Redirect("module_list",
                            "deleted"))
        /\ UNCHANGED <<enrollments, now, req, started, shop, calc, reviews, job, sent>>

\* CourseUpdateView POST: login, 404, author only (403), then the UPDATE; of the
\* form fields only is_published is kept in the catalog
CourseUpdateView(u, pk, is_published) ==
    /\ IF u = AnonymousUser
       THEN Answer("course_update", u, pk, Redirect("login", "none")) /\ UNCHANGED catalog
       ELSE IF pk \notin catalog.courses
       THEN Answer("course_update", u, pk, [status |-> 404, error |-> "Http404"])
            /\ UNCHANGED catalog
       ELSE IF ~IsAuthor(u, pk)
       THEN Answer("course_update", u, pk, [status |-> 403, error |-> "not_author"])
            /\ UNCHANGED catalog
       ELSE /\ catalog' = [catalog EXCEPT !.published =
                              IF is_published THEN @ \cup {pk} ELSE @ \ {pk}]
            /\ Answer("course_update", u, pk, Redirect("course_detail", "updated"))
    /\ UNCHANGED <<progress, enrollments, now, req, started, shop, calc, reviews, job, sent>>

\* ModuleCreateView POST: login, 404 for an unknown course, author only (403);
\* form_valid sets the course from the URL; the new row takes the next pk of
\* the table's sequence; of the form fields title and order are kept
ModuleCreateView(u, course_pk, title) ==
    LET pk == catalog.module_seq
        keep == UNCHANGED catalog
    IN  /\ IF u = AnonymousUser
           THEN Answer("module_create", u, course_pk, Redirect("login", "none")) /\ keep
           ELSE IF course_pk \notin catalog.courses
           THEN Answer("module_create", u, course_pk, [status |-> 404, error |-> "Http404"])
                /\ keep
           ELSE IF ~IsAuthor(u, course_pk)
           THEN Answer("module_create", u, course_pk, [status |-> 403, error |-> "not_author"])
                /\ keep
           ELSE /\ pk \in ModuleIds /\ Module[pk].course = course_pk
                /\ IF \E m \in catalog.modules :
                         Module[m].course = course_pk /\ Module[m].order = Module[pk].order
                   THEN Answer("module_create", u, course_pk, ServerError("IntegrityError"))
                        /\ keep
                   ELSE /\ catalog' = [catalog EXCEPT !.modules = @ \cup {pk},
                                                      !.module_title[pk] = title,
                                                      !.module_seq = @ + 1]
                        /\ Answer("module_create", u, course_pk,
                                  Redirect("module_list", "created"))
        /\ UNCHANGED <<progress, enrollments, now, req, started, shop, calc, reviews, job, sent>>

\* LessonCreateView POST: login, 404 for an unknown module, author of the
\* module's course only (403); form_valid sets the module from the URL; of the
\* form fields order and is_published are kept
LessonCreateView(u, course_pk, module_pk, is_published) ==
    LET pk == catalog.lesson_seq
        keep == UNCHANGED catalog
    IN  /\ IF u = AnonymousUser
           THEN Answer("lesson_create", u, module_pk, Redirect("login", "none")) /\ keep
           ELSE IF module_pk \notin catalog.modules
           THEN Answer("lesson_create", u, module_pk, [status |-> 404, error |-> "Http404"])
                /\ keep
           ELSE IF ~IsAuthor(u, Module[module_pk].course)
           THEN Answer("lesson_create", u, module_pk, [status |-> 403, error |-> "not_author"])
                /\ keep
           ELSE /\ pk \in LessonIds /\ Lesson[pk].module = module_pk
                /\ IF \E l \in catalog.lessons :
                         Lesson[l].module = module_pk /\ Lesson[l].order = Lesson[pk].order
                   THEN Answer("lesson_create", u, module_pk, ServerError("IntegrityError"))
                        /\ keep
                   ELSE /\ catalog' = [catalog EXCEPT
                                          !.lessons = @ \cup {pk},
                                          !.lesson_published =
                                              IF is_published THEN @ \cup {pk} ELSE @ \ {pk},
                                          !.lesson_seq = @ + 1]
                        /\ Answer("lesson_create", u, module_pk,
                                  Redirect("module_detail", "created"))
        /\ UNCHANGED <<progress, enrollments, now, req, started, shop, calc, reviews, job, sent>>

\* ModuleUpdateView POST: login, get_object (404 unless the module is of the
\* course), author only (403); ModuleForm has no course field; of the form
\* fields title is kept
ModuleUpdateView(u, course_pk, module_pk, title) ==
    /\ IF u = AnonymousUser
       THEN Answer("module_update", u, module_pk, Redirect("login", "none"))
            /\ UNCHANGED catalog
       ELSE IF module_pk \notin catalog.modules \/ Module[module_pk].course # course_pk
       THEN Answer("module_update", u, module_pk, [status |-> 404, error |-> "Http404"])
            /\ UNCHANGED catalog
       ELSE IF ~IsAuthor(u, course_pk)
       THEN Answer("module_update", u, module_pk, [status |-> 403, error |-> "not_author"])
            /\ UNCHANGED catalog
       ELSE /\ catalog' = [catalog EXCEPT !.module_title[module_pk] = title]
            /\ Answer("module_update", u, module_pk, Redirect("module_detail", "updated"))
    /\ UNCHANGED <<progress, enrollments, now, req, started, shop, calc, reviews, job, sent>>

\* LessonUpdateView POST: login, get_object (404 unless the lesson is of the
\* module and the module of the course), author only (403); LessonForm has no
\* module field; of the form fields is_published is kept
LessonUpdateView(u, course_pk, module_pk, pk, is_published) ==
    /\ IF u = AnonymousUser
       THEN Answer("lesson_update", u, pk, Redirect("login", "none")) /\ UNCHANGED catalog
       ELSE IF \/ pk \notin catalog.lessons \/ Lesson[pk].module # module_pk
               \/ Module[module_pk].course # course_pk
       THEN Answer("lesson_update", u, pk, [status |-> 404, error |-> "Http404"])
            /\ UNCHANGED catalog
       ELSE IF ~IsAuthor(u, course_pk)
       THEN Answer("lesson_update", u, pk, [status |-> 403, error |-> "not_author"])
            /\ UNCHANGED catalog
       ELSE /\ catalog' = [catalog EXCEPT !.lesson_published =
                              IF is_published THEN @ \cup {pk} ELSE @ \ {pk}]
            /\ Answer("lesson_update", u, pk, Redirect("lesson_detail", "updated"))
    /\ UNCHANGED <<progress, enrollments, now, req, started, shop, calc, reviews, job, sent>>

(* ------------------- the percentage expression alone ------------------- *)

NoCalc == [completed |-> 0, total |-> 0, percentage |-> <<>>]

\* int((completed / total) * 100) if total > 0 else 0, as the toggle response
\* and the module and lesson detail pages evaluate it
Percentage ==
    /\ calc.percentage = None
    /\ calc' = [calc EXCEPT !.percentage =
                    <<progress_percentage(calc.completed, calc.total)>>]
    /\ UNCHANGED <<progress, enrollments, now, req, started, out, shop, site>>

(* --------------------------- specification ----------------------------- *)

\* the enroll requests sent: u1 takes both courses, u2 the first one only
EnrollRequests == {<<"u1", 1>>, <<"u1", 2>>, <<"u2", 1>>, <<"u2", 9>>}
\* the cart requests sent: u1 buys the second course
CartRequests == {<<"u1", 2>>, <<"u1", 9>>}

Init ==
    /\ progress = {}
    /\ enrollments = {}
    /\ now = 1
    /\ req = [r \in Reqs |-> IdleReq]
    /\ started = 0
    /\ out = NoOut
    /\ cart = [u \in Users |-> <<>>]
    /\ orders = {}
    /\ order_items = {}
    /\ calc = NoCalc
    /\ catalog = InitialCatalog
    /\ reviews = {}
    /\ job = [w \in Jobs |-> IdleJob]
    /\ sent = 0

Next ==
    \/ \E e \in EnrollRequests, method \in {"POST", "GET"} :
          quick_enroll(e[1], method, e[2])
    \/ \E c \in CartRequests : AddToCartView(c[1], c[2])
    \/ \E c \in CartRequests : RemoveFromCartView(c[1], c[2])
    \/ \E u \in Users : CheckoutView(u)
    \/ \E r \in Reqs, u \in Users \cup {AnonymousUser},
          lesson_id \in LessonIdParams, completed_param \in CompletedParams :
          started < MaxToggles /\ ToggleBegin(r, u, lesson_id, completed_param)
    \/ \E r \in Reqs : ToggleGet(r)
    \/ \E r \in Reqs : ToggleCreate(r)
    \/ \E r \in Reqs : ToggleSave(r)
    \/ \E r \in Reqs : ToggleModuleRollup(r)
    \/ \E r \in Reqs : ToggleCourseRollup(r)

Spec == Init /\ [][Next]_vars

\* the percentage expression on every pair of counts up to MaxTotal lessons
PctInit ==
    /\ progress = {}
    /\ enrollments = {}
    /\ now = 1
    /\ req = [r \in Reqs |-> IdleReq]
    /\ started = 0
    /\ out = NoOut
    /\ cart = [u \in Users |-> <<>>]
    /\ orders = {}
    /\ order_items = {}
    /\ catalog = InitialCatalog
    /\ reviews = {}
    /\ job = [w \in Jobs |-> IdleJob]
    /\ sent = 0
    /\ \E total \in 0..MaxTotal, completed \in 0..MaxTotal :
          /\ completed <= total
          /\ calc = [completed |-> completed, total |-> total, percentage |-> None]

PctNext == Percentage

PctSpec == PctInit /\ [][PctNext]_vars

\* enrollment and shop: the requests sent
ShopUsers == {"u1", AnonymousUser}
ShopCourses == {1, 3, 9}

EnrollNext ==
    \/ \E w \in Jobs, u \in ShopUsers, method \in {"POST", "GET"}, pk \in ShopCourses :
          QuickEnrollBegin(w, u, method, pk)
    \/ \E w \in Jobs : QuickEnrollCreate(w)
    \/ \E w \in Jobs, u \in ShopUsers, course \in ShopCourses : EnrollViewBegin(w, u, course)
    \/ \E w \in Jobs : EnrollViewClean(w)
    \/ \E w \in Jobs : EnrollViewSave(w)
    \/ \E pk \in ShopCourses : AddToCartView("u1", pk)
    \/ \E pk \in ShopCourses : RemoveFromCartView("u1", pk)
    \/ \E w \in Jobs, u \in ShopUsers : CheckoutBegin(w, u)
    \/ \E w \in Jobs : CheckoutItem(w)
    \/ \E w \in Jobs : CheckoutFinish(w)
    \/ \E u \in Teachers \cup ShopUsers, is_published \in BOOLEAN :
          CourseUpdateView(u, 3, is_published)

EnrollSpec == Init /\ [][EnrollNext]_vars

\* progress pages: the requests sent
ListingRequests == {<<"u1", 1, 1>>, <<"u2", 1, 1>>, <<AnonymousUser, 1, 1>>, <<"u1", 2, 1>>}
ListingLessons == {Str(<<"1">>), Str(<<"2">>), Str(<<"3">>)}
LessonRequests == {<<"u1", 1, 1, 2>>, <<AnonymousUser, 1, 1, 2>>}

ListNext ==
    \/ \E e \in EnrollRequests : quick_enroll(e[1], "POST", e[2])
    \/ \E r \in Reqs, u \in Users, lesson_id \in ListingLessons,
          completed_param \in CompletedParams :
          started < MaxToggles /\ ToggleBegin(r, u, lesson_id, completed_param)
    \/ \E r \in Reqs : ToggleGet(r)
    \/ \E r \in Reqs : ToggleCreate(r)
    \/ \E r \in Reqs : ToggleSave(r)
    \/ \E r \in Reqs : ToggleModuleRollup(r)
    \/ \E r \in Reqs : ToggleCourseRollup(r)
    \/ \E q \in ListingRequests : ModuleDetailView(q[1], q[2], q[3])
    \/ \E q \in LessonRequests : LessonDetailView(q[1], q[2], q[3], q[4])

ListSpec == Init /\ [][ListNext]_vars

\* the author's delete views next to the students' requests
AuthorUsers == Teachers \cup {"u1", AnonymousUser}
AuthorEnrollRequests == {<<"u1", 1>>, <<"u1", 2>>}
AuthorLessons == {Str(<<"1">>), Str(<<"3">>), Str(<<"4">>)}

AuthorNext ==
    \/ \E e \in AuthorEnrollRequests : quick_enroll(e[1], "POST", e[2])
    \/ \E r \in Reqs, lesson_id \in AuthorLessons, completed_param \in CompletedParams :
          started < MaxToggles /\ ToggleBegin(r, "u1", lesson_id, completed_param)
    \/ \E r \in Reqs : ToggleGet(r)
    \/ \E r \in Reqs : ToggleCreate(r)
    \/ \E r \in Reqs : ToggleSave(r)
    \/ \E r \in Reqs : ToggleModuleRollup(r)
    \/ \E r \in Reqs : ToggleCourseRollup(r)
    \/ \E u \in AuthorUsers, method \in {"POST", "GET"}, pk \in {2, 9} :
          CourseDeleteView(u, method, pk)
    \/ \E u \in AuthorUsers, method \in {"POST", "GET"}, m \in {<<1, 1>>, <<2, 1>>} :
          ModuleDeleteView(u, method, m[1], m[2])

AuthorSpec == Init /\ [][AuthorNext]_vars

\* a student's cart and checkouts next to the author's delete of a course
OrderCourses == {1, 3}

OrderNext ==
    \/ \E pk \in OrderCourses : AddToCartView("u1", pk)
    \/ \E w \in Jobs : CheckoutBegin(w, "u1")
    \/ \E w \in Jobs : CheckoutItem(w)
    \/ \E w \in Jobs : CheckoutFinish(w)
    \/ \E u \in Teachers, pk \in OrderCourses : CourseDeleteView(u, "POST", pk)
    \/ \E r \in Reqs :
          /\ started < MaxOrderToggles
          /\ ToggleBegin(r, "u1", Str(<<"1">>), Str(<<"t", "r", "u", "e">>))
    \/ \E r \in Reqs : ToggleGet(r)
    \/ \E r \in Reqs : ToggleCreate(r)
    \/ \E r \in Reqs : ToggleSave(r)
    \/ \E r \in Reqs : ToggleModuleRollup(r)
    \/ \E r \in Reqs : ToggleCourseRollup(r)

OrderSpec == Init /\ [][OrderNext]_vars

\* the statistics page over a table of order items: the courses sold, in the
\* order of sale, each by an order of its own
SoldSequences == UNION {[1..n -> CourseIds] : n \in 0..MaxSold}

StatsInit ==
    /\ \E sold \in SoldSequences :
          /\ orders = {[pk |-> i, user |-> "u1", status |-> "paid"] : i \in 1..Len(sold)}
          /\ order_items = {[pk |-> i, order |-> i, course |-> sold[i],
                             price |-> ItemPrice(sold[i])] : i \in 1..Len(sold)}
          /\ enrollments = {NewEnrollment({}, "u1", c) : c \in {sold[i] : i \in 1..Len(sold)}}
    /\ progress = {}
    /\ now = 1
    /\ req = [r \in Reqs |-> IdleReq]
    /\ started = 0
    /\ out = NoOut
    /\ cart = [u \in Users |-> <<>>]
    /\ calc = NoCalc
    /\ catalog = InitialCatalog
    /\ reviews = {}
    /\ job = [w \in Jobs |-> IdleJob]
    /\ sent = 0

StatsNext == \E u \in Staff \cup {"u1", AnonymousUser} : AdminStatsView(u)

StatsSpec == StatsInit /\ [][StatsNext]_vars

\* the edit pages of courses, modules and lessons, requested by the author, a
\* student and an anonymous visitor
EditUsers == Teachers \cup {"u1", AnonymousUser}
NewTitle == "Advanced"
EditModules == {<<2, 3>>, <<1, 3>>}
EditLessons == {<<2, 3, 4>>, <<1, 1, 2>>, <<1, 3, 4>>}

EditNext ==
    \/ \E u \in EditUsers, pk \in {2, 9}, is_published \in BOOLEAN :
          CourseUpdateView(u, pk, is_published)
    \/ \E u \in EditUsers, method \in {"POST", "GET"} : CourseDeleteView(u, method, 2)
    \/ \E u \in EditUsers, course_pk \in {2, 9} : ModuleCreateView(u, course_pk, NewTitle)
    \/ \E u \in EditUsers, is_published \in BOOLEAN :
          LessonCreateView(u, 2, 3, is_published)
    \/ \E u \in EditUsers, m \in EditModules : ModuleUpdateView(u, m[1], m[2], NewTitle)
    \/ \E u \in EditUsers, method \in {"POST", "GET"} : ModuleDeleteView(u, method, 2, 3)
    \/ \E u \in EditUsers, l \in EditLessons, is_published \in BOOLEAN :
          LessonUpdateView(u, l[1], l[2], l[3], is_published)

EditSpec == Init /\ [][EditNext]_vars

\* a student's enrollment and toggles in a course while its author edits and
\* deletes the content
ContentLessons == {Str(<<"4">>), Str(<<"5">>)}

ContentNext ==
    \/ quick_enroll("u1", "POST", 2)
    \/ \E r \in Reqs, lesson_id \in ContentLessons, completed_param \in CompletedParams :
          started < MaxToggles /\ ToggleBegin(r, "u1", lesson_id, completed_param)
    \/ \E r \in Reqs : ToggleGet(r)
    \/ \E r \in Reqs : ToggleCreate(r)
    \/ \E r \in Reqs : ToggleSave(r)
    \/ \E r \in Reqs : ToggleModuleRollup(r)
    \/ \E r \in Reqs : ToggleCourseRollup(r)
    \/ \E u \in Teachers \cup {"u1"} : CourseDeleteView(u, "POST", 2)
    \/ \E u \in Teachers : ModuleDeleteView(u, "POST", 2, 3)
    \/ \E u \in Teachers : ModuleUpdateView(u, 2, 3, NewTitle)
    \/ \E u \in Teachers, is_published \in BOOLEAN : LessonCreateView(u, 2, 3, is_published)
    \/ \E u \in Teachers : LessonUpdateView(u, 2, 3, 4, FALSE)

ContentSpec == Init /\ [][ContentNext]_vars

\* one student toggling one lesson back and forth, up to MaxStampToggles times
StampLesson == Str(<<"1">>)

StampNext ==
    \/ quick_enroll("u1", "POST", 1)
    \/ \E r \in Reqs, completed_param \in CompletedParams :
          started < MaxStampToggles /\ ToggleBegin(r, "u1", StampLesson, completed_param)
    \/ \E r \in Reqs : ToggleGet(r)
    \/ \E r \in Reqs : ToggleCreate(r)
    \/ \E r \in Reqs : ToggleSave(r)
    \/ \E r \in Reqs : ToggleModuleRollup(r)
    \/ \E r \in Reqs : ToggleCourseRollup(r)

StampSpec == Init /\ [][StampNext]_vars

\* reviews: the submissions sent
ReviewUsers == Users \cup {AnonymousUser}
ReviewCourses == {1, 2, 9}
ReviewRatings == {0, 4, 5}
ReviewTexts ==
    {<<>>,
     <<111, 107>>,
     <<32, 32, 32, 32, 32, 32, 32, 32, 32, 111, 107>>,
     <<103, 111, 111, 100, 32, 99, 111, 117, 114, 115, 101>>,
     <<32, 103, 114, 101, 97, 116, 32, 99, 111, 117, 114, 115, 101, 32>>,
     <<1057, 1055, 1040, 1052, 32, 99, 111, 117, 114, 115, 101>>}

ReviewNext ==
    \/ \E w \in Jobs, u \in ReviewUsers, pk \in ReviewCourses,
          rating \in ReviewRatings, raw \in ReviewTexts :
          AddReviewBegin(w, u, pk, rating, raw)
    \/ \E w \in Jobs : AddReviewSave(w)

ReviewSpec == Init /\ [][ReviewNext]_vars

(* ------------------------------- claims -------------------------------- *)

\* the step just taken answered a toggle request / answered it with success
Answered == out.pc = "done"
Succeeded == Answered /\ out.response.status = 200

\* the stored Progress rows of a (user, lesson) pair
RowsFor(u, l) == {p \in progress : p.user = u /\ p.lesson = l}
OutRows == RowsFor(out.user, out.lesson)

\* no other toggle of the same (user, lesson) ran while the answered one did
Alone == <<out.user, out.lesson>> \notin out.concurrent

\* the lesson_id parameter is the pk of a stored lesson
Identifies(lesson_id) ==
    /\ lesson_id # None
    /\ IsIntLiteral(lesson_id[1])
    /\ ParseInt(lesson_id[1]) \in catalog.lessons

HasEnrollment(rows, u, c) == \E e \in rows : e.user = u /\ e.course = c

\* C1: in every reachable state, under any interleaving of toggles, every stored
\* Progress row has completed_at set if and only if completed is true.
C1_CompletedAtIffCompleted ==
    \A p \in progress : (p.completed_at # None) <=> p.completed

\* a Complete row with its timestamp next to an Incomplete row without one
C1_Witness ==
    \E p, q \in progress :
        /\ p.completed /\ p.completed_at # None
        /\ ~q.completed /\ q.completed_at = None

\* C2: there is at most one Progress row per (user, lesson) in every reachable
\* state, and a toggle that is answered with success leaves exactly one row for
\* its pair, also when toggles of the pair race at the get-or-create step.
C2_OneProgressPerUserLesson ==
    /\ \A u \in Users, l \in LessonIds : Cardinality(RowsFor(u, l)) <= 1
    /\ Succeeded => Cardinality(OutRows) = 1

\* two toggle(true) of one pair both missed the row in their SELECT; one has
\* inserted it, the other is about to INSERT
C2_Witness ==
    \E r1, r2 \in Reqs :
        /\ req[r1].pc = "create" /\ req[r1].completed
        /\ req[r2].pc = "module_rollup" /\ req[r2].created /\ req[r2].completed
        /\ req[r1].user = req[r2].user /\ req[r1].lesson = req[r2].lesson

\* C3: a toggle(true) that finds the record Complete, as a preceding toggle(true)
\* leaves it, and runs with no other toggle of the pair, leaves the stored
\* completed_at as it was: the timestamp is not refreshed.
C3_RepeatedCompleteKeepsTimestamp ==
    (Succeeded /\ Alone /\ out.completed /\ out.before.completed) =>
        /\ OutRows # {}
        /\ \A p \in OutRows : p.completed /\ p.completed_at = out.before.completed_at

C3_Witness ==
    /\ Succeeded /\ Alone /\ out.completed
    /\ out.before.completed /\ out.before.completed_at # None

\* C4: a toggle(false) that follows a toggle(true) of the pair, so finds the
\* record Complete, and runs with no other toggle of the pair, leaves the record
\* with completed = false and completed_at = None.
C4_CompleteThenIncompleteClears ==
    (Succeeded /\ Alone /\ ~out.completed /\ out.before.completed) =>
        /\ OutRows # {}
        /\ \A p \in OutRows : ~p.completed /\ p.completed_at = None

C4_Witness ==
    /\ Succeeded /\ Alone /\ ~out.completed
    /\ out.before.completed /\ out.before.completed_at # None
    /\ \E p \in OutRows : p.pk = out.before.pk

\* C5: a toggle request of an authenticated user for an existing lesson of a
\* course the user holds no Enrollment for is answered 403 (Forbidden), and the
\* step that answers it leaves the Progress table as it was.
C5_NotEnrolledForbidden ==
    [][(/\ out'.pc = "done"
        /\ out'.user \in Users
        /\ Identifies(out'.lesson_id)
        /\ ~HasEnrollment(enrollments', out'.user,
                          LessonCourse(ParseInt(out'.lesson_id[1]))))
       => (out'.response.status = 403 /\ progress' = progress)]_vars

\* a 403 answer while Progress rows are stored
C5_Witness ==
    /\ Answered /\ out.response.status = 403
    /\ out.user \in Users /\ Identifies(out.lesson_id)
    /\ progress # {}

\* C6: a toggle request of an authenticated user whose lesson id is given and
\* is not the id of a stored lesson is answered 404 (NotFound) and changes
\* neither the Progress nor the Enrollment table, whatever the value of the id.
C6_UnknownLessonNotFound ==
    [][(/\ out'.pc = "done"
        /\ out'.user \in Users
        /\ out'.lesson_id # None /\ out'.lesson_id # Str(<<>>)
        /\ ~Identifies(out'.lesson_id))
       => (/\ out'.response.status = 404
           /\ progress' = progress
           /\ enrollments' = enrollments)]_vars

\* C7: for total > 0 and 0 <= completed <= total the percentage is
\* floor(100 * completed / total), and it is 0 when total = 0.
C7_PercentageIsFloor ==
    calc.percentage # None =>
        calc.percentage[1] = IF calc.total > 0
                             THEN (100 * calc.completed) \div calc.total
                             ELSE 0

LessonsOfModule(m) == {l \in catalog.lessons : Lesson[l].module = m}
ModulesOfCourse(c) == {m \in catalog.modules : Module[m].course = c}

\* the lessons among `lessons` that user u has a completed row for
CompletedBy(u, lessons) ==
    Cardinality({l \in lessons : \E p \in progress : p.user = u /\ p.lesson = l /\ p.completed})

RECURSIVE SumOver(_, _)
SumOver(f, S) ==
    IF S = {} THEN 0
    ELSE LET x == CHOOSE y \in S : TRUE IN f[x] + SumOver(f, S \ {x})

\* C8: in the response of a toggle that ran with no other toggle, module_total
\* is the number of all lessons of the module, published or not, and
\* module_completed the number of them the user has completed; course_total and
\* course_completed are the sums of these counts over the modules of the course.
\* Rows of other users and of other courses do not count.
C8_RollupCounts ==
    (Succeeded /\ out.concurrent = {}) =>
        LET m == Lesson[out.lesson].module
            ms == ModulesOfCourse(Module[m].course)
        IN  /\ out.response.module_total = Cardinality(LessonsOfModule(m))
            /\ out.response.module_completed = CompletedBy(out.user, LessonsOfModule(m))
            /\ out.response.course_total =
                   SumOver([x \in ms |-> Cardinality(LessonsOfModule(x))], ms)
            /\ out.response.course_completed =
                   SumOver([x \in ms |-> CompletedBy(out.user, LessonsOfModule(x))], ms)

\* the answered toggle is for a module with an unpublished lesson, in which
\* another user has a completed row, and the user has one in another course
C8_Witness ==
    /\ Succeeded /\ out.concurrent = {}
    /\ \E l \in LessonsOfModule(Lesson[out.lesson].module) : ~Lesson[l].is_published
    /\ \E p \in progress :
          /\ p.user # out.user /\ p.completed
          /\ Lesson[p.lesson].module = Lesson[out.lesson].module

\* C9: after a successful toggle to state d that ran with no other toggle of
\* the pair, a row for the pair is stored with completed = d and the response
\* field completed is d; when no row was stored before, the toggle created it
\* (also for d = false), with completed_at a clock reading taken during the
\* request if d is true and None if d is false.
C9_ToggleStoresDesiredState ==
    (Succeeded /\ Alone) =>
        /\ \E p \in OutRows : p.completed = out.completed
        /\ out.response.completed = out.completed
        /\ out.before = NoObj =>
              /\ out.created
              /\ \A p \in OutRows :
                    IF out.completed
                    THEN /\ p.completed_at # None
                         /\ p.completed_at[1] >= out.since
                         /\ p.completed_at[1] < now
                    ELSE p.completed_at = None

\* a first toggle of a pair that asks for "not completed" has created the row
C9_Witness ==
    /\ Succeeded /\ Alone /\ out.before = NoObj /\ ~out.completed
    /\ \E p \in OutRows : ~p.completed

\* the pairs of the requests that move in a step
ActingKeys ==
    {<<req[r].user, req[r].lesson>> : r \in {q \in Reqs : req'[q].pc # req[q].pc}}
    \cup {<<req'[r].user, req'[r].lesson>> : r \in {q \in Reqs : req'[q].pc # req[q].pc}}

\* C10: a step of a toggle request of user u for lesson l changes no Progress
\* row other than the one of (u, l), no Enrollment, no Order or OrderItem and no
\* session cart, whether the request succeeds or fails.
C10_ToggleFrame ==
    [][(req' # req \/ out'.pc = "done") =>
          /\ enrollments' = enrollments
          /\ cart' = cart /\ orders' = orders /\ order_items' = order_items
          /\ \A p \in (progress' \ progress) \cup (progress \ progress') :
                <<p.user, p.lesson>> \in ActingKeys]_vars

\* a toggle is answered while an order, a filled cart and a row of another
\* pair are stored
C10_Witness ==
    /\ Succeeded
    /\ orders # {} /\ order_items # {}
    /\ \E u \in Users : cart[u] # <<>>
    /\ \E p \in progress : <<p.user, p.lesson>> # <<out.user, out.lesson>>

\* C11: toggles of one (user, lesson) that race on the creation of the row all
\* end in the success outcome: the request whose INSERT meets the unique
\* constraint reads the row again and goes on as an update, and no toggle that
\* passed the parameter, lesson and enrollment checks is answered with an error.
C11_CreationRaceResolved ==
    /\ (Answered /\ out.lesson # 0) => out.response.status = 200
    /\ (Answered /\ out.conflict) => (~out.created /\ Cardinality(OutRows) = 1)

\* a toggle that lost the race for the INSERT has been answered with success
C11_Witness ==
    /\ Succeeded /\ out.conflict
    /\ <<out.user, out.lesson>> \in out.concurrent

\* C12: a toggle request without an authenticated user is answered with the
\* Forbidden / 401 error status, whatever its parameters, and the step that
\* answers it changes no table and no cart.
C12_UnauthenticatedForbidden ==
    [][(out'.pc = "done" /\ out'.user = AnonymousUser)
       => (/\ out'.response.status \in {401, 403}
           /\ progress' = progress /\ enrollments' = enrollments
           /\ shop' = shop)]_vars

\* the lesson_id parameter that names lesson l
LessonIdOf(l) == CHOOSE s \in LessonIdParams : Identifies(s) /\ ParseInt(s[1]) = l

\* C16: the completion state of a (user, lesson) pair has no terminal state.
\* Whatever rows are stored, a toggle to either state is admitted for every
\* enrolled user and lesson while a worker is free, every admitted toggle can
\* take its next step up to the final roll-up, which has no condition but its
\* position, and a toggle that ran with no other toggle of the pair
\* leaves the row in the state it asked for, from absent, Incomplete and
\* Complete alike.
C16_NoTerminalState ==
    /\ \A r \in Reqs :
          (Active(r) /\ req[r].pc # "course_rollup")
          => ENABLED (\/ ToggleGet(r) \/ ToggleCreate(r) \/ ToggleSave(r)
                      \/ ToggleModuleRollup(r))
    /\ \A r \in Reqs, u \in Users, l \in catalog.lessons, d \in CompletedParams :
          (/\ FreeReq(r) /\ started < MaxToggles
           /\ HasEnrollment(enrollments, u, LessonCourse(l)))
          => ENABLED (ToggleBegin(r, u, LessonIdOf(l), d) /\ req'[r].pc = "get")
    /\ (Succeeded /\ Alone) =>
          /\ OutRows # {}
          /\ \A p \in OutRows : p.completed = out.completed

\* a row that was stored Incomplete has been made Complete
C16_Witness ==
    /\ Succeeded /\ Alone /\ out.completed
    /\ out.before # NoObj /\ ~out.before.completed
    /\ \E p \in OutRows : p.pk = out.before.pk /\ p.completed

\* C17: in the response of a toggle that ran with no other toggle,
\* module_completed and course_completed are the counts over the rows stored
\* after the toggle: against the counts at admission both are one higher when
\* the row went from absent or Incomplete to Complete, one lower when it went
\* from Complete to Incomplete, and equal when its state did not change.
C17_RollupsReflectToggle ==
    (Succeeded /\ out.concurrent = {}) =>
        LET m == Lesson[out.lesson].module
            c == LessonCourse(out.lesson)
            delta == (IF out.completed THEN 1 ELSE 0) -
                     (IF out.before.completed THEN 1 ELSE 0)
        IN  /\ out.response.module_completed = ModuleCompleted(progress, out.user, m)
            /\ out.response.course_completed = CourseCompleted(progress, out.user, c)
            /\ out.response.module_completed = out.before_counts[1] + delta
            /\ out.response.course_completed = out.before_counts[2] + delta

\* a toggle from Complete to Incomplete has lowered both counts from 1 to 0
C17_Witness ==
    /\ Succeeded /\ out.concurrent = {}
    /\ out.before.completed /\ ~out.completed
    /\ out.before_counts = <<1, 1>>
    /\ out.response.module_completed = 0 /\ out.response.course_completed = 0

\* the step just taken answered an enroll, checkout, review or author request
Served == out.pc = "served"

EnrollmentsOf(u, c) == {e \in enrollments : e.user = u /\ e.course = c}

\* C13: in every reachable state, after any interleaving of quick_enroll,
\* EnrollView submissions and checkouts, at most one Enrollment row is stored
\* per (user, course).
C13_OneEnrollmentPerUserCourse ==
    \A u \in Users, c \in CourseIds : Cardinality(EnrollmentsOf(u, c)) <= 1

\* an enroll request passed its existence check, another request enrolled the
\* pair, and the INSERT of the first has been rejected
C13_Witness ==
    /\ Served /\ out.view \in {"quick_enroll", "enroll"}
    /\ out.response.status = 500
    /\ Cardinality(EnrollmentsOf(out.user, out.pk)) = 1

\* C14: an enroll attempt (quick_enroll POST, EnrollView submission, or the
\* enrollment of a checkout item) for a pair that is enrolled when the attempt
\* writes or answers is a no-op without an error: the answer is not an error
\* status and the Enrollment table is left as it was.
C14_AlreadyEnrolledIsNoOp ==
    [][/\ (/\ out'.pc = "served"
           /\ out'.view \in {"quick_enroll", "enroll"}
           /\ out'.job.method = "POST"
           /\ out'.user \in Users
           /\ out'.pk \in catalog.courses
           /\ IsEnrolled(enrollments, out'.user, out'.pk))
          => (out'.response.status < 400 /\ enrollments' = enrollments)
       /\ \A w \in Jobs :
             (/\ job[w].view = "checkout" /\ job[w].pc = "item" /\ job'[w] # job[w]
              /\ IsEnrolled(enrollments, job[w].user, Head(job[w].courses)))
             => (enrollments' = enrollments /\ out'.pc # "served")]_vars

\* the items of an order
ItemsOf(o) == {i \in order_items : i.order = o}

\* C15: when a checkout POST is answered with success, exactly one Order row
\* with its pk is stored, paid and owned by the user; its items are the
\* courses of the cart that were published when the cart was read, one item
\* per course, priced 0 for a free course and at the course price otherwise;
\* the user is enrolled in every course of the order and the session cart is
\* empty.
C15_CheckoutCreatesOrder ==
    (Served /\ out.view = "checkout" /\ out.response.status = 302
            /\ out.response.to = "orders_history") =>
        LET j == out.job
            bought == {c \in CourseIds : Contains(j.cart, c) /\ c \in j.published}
        IN  /\ bought # {}
            /\ Cardinality({o \in orders : o.pk = j.order}) = 1
            /\ \A o \in orders : o.pk = j.order => (o.status = "paid" /\ o.user = j.user)
            /\ {i.course : i \in ItemsOf(j.order)} = bought
            /\ Cardinality(ItemsOf(j.order)) = Cardinality(bought)
            /\ \A i \in ItemsOf(j.order) :
                  i.price = IF Course[i.course].is_free THEN 0 ELSE Course[i.course].price
            /\ \A c \in bought : EnrollmentsOf(j.user, c) # {}
            /\ cart[j.user] = <<>>

\* an order of a free course that has a price and of a paid course, from a cart
\* read while the free course was published
C15_Witness ==
    /\ Served /\ out.view = "checkout" /\ out.response.status = 302
    /\ out.response.to = "orders_history"
    /\ \E i, k \in ItemsOf(out.job.order) :
          /\ Course[i.course].is_free /\ Course[i.course].price > 0 /\ i.price = 0
          /\ ~Course[k.course].is_free /\ k.price = Course[k.course].price

C19_ProgressNeverDeleted ==
    [][\A p \in progress : \E q \in progress' : q.pk = p.pk]_vars

ReviewsOf(rows, u, c) == {v \in rows : v.user = u /\ v.course = c}

\* C20: after every step each user has at most one Review per course, and a
\* review submission that is answered while the user has a review of the
\* course stored, also one that interleaved with another submission of the
\* same user for the same course, leaves the Review table as it was: no row
\* is created and no row is changed.
C20_OneReviewPerUserCourse ==
    [][/\ \A u \in Users, c \in CourseIds : Cardinality(ReviewsOf(reviews', u, c)) <= 1
       /\ (/\ out'.pc = "served" /\ out'.view = "add_review"
           /\ out'.user \in Users
           /\ ReviewsOf(reviews, out'.user, out'.pk) # {})
          => reviews' = reviews]_vars

\* two submissions of a user for a course interleaved: the second INSERT has
\* been rejected and the stored review is the one of the first
C20_Witness ==
    /\ Served /\ out.view = "add_review" /\ out.response.status = 500
    /\ Cardinality(ReviewsOf(reviews, out.user, out.pk)) = 1
    /\ \E v \in ReviewsOf(reviews, out.user, out.pk) :
          v.rating # out.job.rating \/ v.text # out.job.text

(* ------------------------------------------------------------------------ *)

\* the lessons a served page hands to its template
ShownLessons ==
    IF out.view = "module_detail"
    THEN {out.response.lessons[i] : i \in 1..Len(out.response.lessons)}
    ELSE {out.response.lesson}
         \cup {out.response.previous_lesson[i] : i \in 1..Len(out.response.previous_lesson)}
         \cup {out.response.next_lesson[i] : i \in 1..Len(out.response.next_lesson)}

\* C21: a lesson whose is_published is false is shown to the author of its
\* course only: no page served to another user, signed in or not, by the lesson
\* detail view or the module's lesson listing hands out an unpublished lesson,
\* as the page's lesson, in the listing or as a neighbour in the navigation.
C21_UnpublishedLessonHidden ==
    (/\ Served /\ out.view \in {"lesson_detail", "module_detail"}
     /\ out.response.status = 200)
    => \A l \in ShownLessons :
          l \in catalog.lesson_published \/ out.user = Course[LessonCourse(l)].author

\* C22: a Complete record carries the time of the latest toggle that moved it
\* from Incomplete or absent to Complete: a toggle(true) that finds the record
\* Incomplete or absent, and runs with no other toggle of the pair, stamps it
\* with a clock reading taken during this call (so after toggle(true),
\* toggle(false), toggle(true) the time is that of the third call), and a
\* toggle(true) that finds it Complete keeps the stored time.
C22_TimestampOfLatestCompletion ==
    (Succeeded /\ Alone /\ out.completed) =>
        /\ OutRows # {}
        /\ \A p \in OutRows :
              /\ p.completed
              /\ IF out.before.completed
                 THEN p.completed_at = out.before.completed_at
                 ELSE /\ p.completed_at # None
                      /\ out.since <= p.completed_at[1] /\ p.completed_at[1] < now

\* the record was Complete before (a first stamp was taken), has been set back
\* to Incomplete, and this toggle(true) has stamped it anew
C22_Witness ==
    /\ Succeeded /\ Alone /\ out.completed
    /\ out.before.pk # None /\ ~out.before.completed
    /\ \E p \in OutRows : p.completed_at # None /\ p.completed_at[1] > 1

\* C25: the completed_at that a successful toggle(true) reports is the stored
\* one: with no toggle(false) of the pair in progress at the same time, the
\* stored completed_at of the pair is, at the time of the response, the time
\* the response reports, also when another toggle(true) read the record while
\* it was Incomplete.
C25_ReportedTimestampStays ==
    (Succeeded /\ out.completed /\ ~out.cleared) =>
        \A p \in OutRows : Strftime(p.completed_at) = out.response.completed_at

\* the courses of a sequence
CoursesIn(seq) == {seq[i] : i \in 1..Len(seq)}

\* C23: a checkout is not atomic: when a write of the loop fails after the
\* order was created, the failing request takes nothing back: the order stays,
\* paid, with the items written so far, each with its enrollment; the courses
\* not yet reached are no items of the order, and the session cart is not
\* cleared.
C23_PartialCheckoutStays ==
    [][(out'.pc = "served" /\ out'.view = "checkout" /\ out'.response.status = 500)
       => LET j == out'.job
              remaining == CoursesIn(j.courses)
              items == {i \in order_items' : i.order = j.order}
          IN  /\ orders' = orders /\ order_items' = order_items
              /\ enrollments' = enrollments /\ cart' = cart
              /\ \E o \in orders' : o.pk = j.order /\ o.status = "paid" /\ o.user = j.user
              /\ \A i \in items :
                    /\ i.course \notin remaining /\ Contains(j.cart, i.course)
                    /\ \E e \in enrollments' : e.user = j.user /\ e.course = i.course
              /\ remaining # {}]_vars

\* the checkout failed on its second course: the first is an item of the order
\* and the cart still holds the courses
C23_Witness ==
    /\ Served /\ out.view = "checkout" /\ out.response.status = 500
    /\ ItemsOf(out.job.order) # {}
    /\ \A i \in ItemsOf(out.job.order) : EnrollmentsOf(out.user, i.course) # {}
    /\ cart[out.user] # <<>>

\* C27: a filled cart becomes at most one order: two checkouts of a user that
\* are in progress together, so have both read the cart before either cleared
\* it, do not both write an order item for the same course.
C27_OneOrderPerCart ==
    \A w, v \in Jobs :
        (/\ w # v
         /\ job[w].view = "checkout" /\ job[w].order # 0
         /\ job[v].view = "checkout" /\ job[v].order # 0
         /\ job[w].user = job[v].user)
        => ~\E i \in ItemsOf(job[w].order), k \in ItemsOf(job[v].order) :
                i.course = k.course /\ Contains(job[w].cart, i.course)
                                    /\ Contains(job[v].cart, i.course)

\* C30: every order item references a stored course, and a POST of the delete
\* page of a course that an order item references fails, also for the author,
\* and leaves the course, its modules and lessons and every enrollment and
\* progress row unchanged.
C30_OrderedCourseProtected ==
    [][/\ \A i \in order_items' : i.course \in catalog'.courses
       /\ (/\ out'.pc = "served" /\ out'.view = "course_delete"
           /\ out'.job.method = "POST"
           /\ \E i \in order_items : i.course = out'.pk)
          => /\ out'.response.status \in {302, 403, 500}
             /\ out'.response.status = 302 => out'.response.to = "login"
             /\ out'.user = Course[out'.pk].author => out'.response.status = 500
             /\ catalog' = catalog /\ enrollments' = enrollments
             /\ progress' = progress /\ order_items' = order_items]_vars

\* the author has posted the delete page of a course that is an item of an
\* order and has an enrollment and a progress row
C30_Witness ==
    /\ Served /\ out.view = "course_delete" /\ out.job.method = "POST"
    /\ out.user = Course[out.pk].author
    /\ out.response.status = 500
    /\ \E i \in order_items : i.course = out.pk
    /\ out.pk \in catalog.courses /\ EnrollmentsOf("u1", out.pk) # {}
    /\ \E p \in progress : LessonCourse(p.lesson) = out.pk

\* the number of order items sold of the courses with title t
Sold(t) == Cardinality({i \in order_items : CourseTitle[i.course] = t})

\* C24: top_courses of the statistics page holds the best-selling courses, at
\* most 5, ranked by the number of order items sold, highest first: no course
\* stands before one that sold more, and no course left out sold more than one
\* that is listed.
C24_TopCoursesBySales ==
    (Served /\ out.view = "admin_stats" /\ out.response.status = 200) =>
        LET top == out.response.top_courses
            titles == {CourseTitle[i.course] : i \in order_items}
            listed == {top[i].course__title : i \in 1..Len(top)}
        IN  /\ listed \subseteq titles
            /\ Len(top) = IF Cardinality(titles) <= TopLimit
                          THEN Cardinality(titles) ELSE TopLimit
            /\ Cardinality(listed) = Len(top)
            /\ \A i, k \in 1..Len(top) :
                  i < k => Sold(top[i].course__title) >= Sold(top[k].course__title)
            /\ \A t \in titles \ listed, i \in 1..Len(top) :
                  Sold(t) <= Sold(top[i].course__title)

\* C29: a quick_enroll POST of a signed-in user who is not enrolled in the
\* course creates the enrollment for any stored course, whatever its is_free,
\* price and is_published, and creates no order and no order item; a
\* quick_enroll request that is not a POST changes no table and no cart.
C29_QuickEnrollAnyCourse ==
    [][/\ (/\ out'.pc = "served" /\ out'.view = "quick_enroll"
           /\ out'.job.method = "POST"
           /\ out'.user \in Users
           /\ out'.pk \in catalog.courses
           /\ ~IsEnrolled(enrollments, out'.user, out'.pk))
          => /\ out'.response = Redirect("course_detail", "enrolled")
             /\ IsEnrolled(enrollments', out'.user, out'.pk)
             /\ orders' = orders /\ order_items' = order_items /\ cart' = cart
       /\ (/\ out'.pc = "served" /\ out'.view = "quick_enroll"
           /\ out'.job.method # "POST")
          => /\ enrollments' = enrollments /\ shop' = shop
             /\ progress' = progress /\ catalog' = catalog /\ reviews' = reviews]_vars

\* a student with no order has been enrolled in an unpublished course that has
\* a price, and is enrolled in a course that is not free
C29_Witness ==
    /\ Served /\ out.view = "quick_enroll" /\ out.job.method = "POST"
    /\ out.response = Redirect("course_detail", "enrolled")
    /\ out.pk \notin catalog.published /\ Course[out.pk].price > 0
    /\ EnrollmentsOf(out.user, out.pk) # {}
    /\ \E e \in enrollments : e.user = out.user /\ ~Course[e.course].is_free
    /\ orders = {} /\ order_items = {}

\* the views that change a course, a module or a lesson
EditViews ==
    {"course_update", "course_delete", "module_create", "module_update",
     "module_delete", "lesson_create", "lesson_update"}

\* C28: only the author changes the content of a course: an update or delete
\* of a course and a create, update or delete of a module or a lesson that is
\* requested by a user who is not the author, signed in or not, is rejected
\* (the login page, 403, or 404 for an object that is not stored) and leaves
\* every course, module and lesson as it was.
C28_AuthorOnlyEdits ==
    [][(/\ out'.pc = "served" /\ out'.view \in EditViews
        /\ \A c \in CourseIds : out'.user # Course[c].author)
       => /\ catalog' = catalog
          /\ out'.response.status \in {302, 403, 404}
          /\ out'.response.status = 302 => out'.response.to = "login"
          /\ out'.user = AnonymousUser <=> out'.response.status = 302]_vars

\* a student's request to edit a stored lesson has been answered 403, after
\* the author had changed the catalog
C28_Witness ==
    /\ Served /\ out.view = "lesson_update" /\ out.user = "u1"
    /\ out.response.status = 403
    /\ out.pk \in catalog.lessons
    /\ catalog # InitialCatalog

\* C26: every progress row is backed by an enrollment: for every stored
\* Progress of a user for a lesson, the user has an Enrollment in the course of
\* the lesson, also while the author edits, adds and deletes modules and
\* lessons and deletes the course.
C26_ProgressBackedByEnrollment ==
    \A p \in progress :
        /\ p.lesson \in catalog.lessons
        /\ HasEnrollment(enrollments, p.user, LessonCourse(p.lesson))

\* a progress row of an enrolled student for a lesson that the author has
\* unpublished, in a module that the author has renamed and extended
C26_Witness ==
    \E p \in progress :
        /\ HasEnrollment(enrollments, p.user, LessonCourse(p.lesson))
        /\ p.lesson \notin catalog.lesson_published
        /\ catalog.module_title[Lesson[p.lesson].module] = NewTitle
        /\ \E l \in catalog.lessons \ InitialLessons : Lesson[l].module = Lesson[p.lesson].module

====
